---- MODULE Spec2Model ----
(***************************************************************************)
(* A model of the se-cli interpreter (src/src/shell): the line parser      *)
(* (parser.rs), the builtins cat, wc, grep and exit (builtins.rs), the     *)
(* pipeline executor and the REPL (mod.rs).                                *)
(*                                                                         *)
(* Text is a sequence of one-character strings.  A map (HashMap) is a      *)
(* function whose DOMAIN is its key set.                                   *)
(***************************************************************************)
EXTENDS Integers, Sequences, FiniteSets, TLC

VARIABLES
    line,       \* parser: the (trimmed) line handed to parse_line
    baseEnv,    \* parser: the environment handed to parse_line
    parsed,     \* parser: the value parse_line returned, or NotParsed
    gMatch,     \* grep: is_match of each source line, in order
    gAfter,     \* grep: the value of -A
    gSt,        \* grep: the locals of grep_bytes_into_output and the lines emitted
    wBytes,     \* wc: the bytes counted
    wCounts,    \* wc: the value count_wc returned, or NotCounted
    cmds,       \* executor: the stages of the pipeline being run
    pcMain,     \* executor: where the main thread is in run_pipeline
    pipes,      \* executor: the OS pipes: bytes buffered, holders of each end
    wk,         \* executor: the worker thread of each stage
    child,      \* executor: the child process of each external stage
    nSpawned,   \* executor: the number of workers spawned so far
    results,    \* executor: the StageResults collected by the join loop
    finalStdout,\* executor: the bytes read from the parent-facing pipe
    ret,        \* executor: the value run_pipeline returned, or NoRet
    ioLog,      \* the writes to the interpreter's stdout and stderr, in order
    pcRepl,     \* run_repl: running the line, at the next line, or returned
    doneOrder,  \* executor (history): the stages in the order their workers ended
    pipeEnv,    \* executor: the snapshot `env` of run_pipeline_with_os_pipes
    handed,     \* executor (history): the environments handed to child processes
    script,     \* run_repl: the lines of the input stream
    hostEnv,    \* run_repl: the environment of the process when run_repl starts
    nRead,      \* run_repl: the number of lines read so far
    shellEnv,   \* run_repl: ShellState.env
    atRead,     \* run_repl (history): the environment and the length of ioLog
                \* when the current line was read
    hist,       \* run_repl (history): the value run_single_line returned, per line
    replRet,    \* run_repl: the value it returned, or NoCode
    bCall,      \* builtins: the builtin invoked, its arguments, stdin and files
    bRes,       \* builtins: what the builtin wrote and returned, or NotRun
    extPc,      \* run_external: where the call is
    extInput,   \* run_external: the bytes of `input` not yet written
    extPipes,   \* run_external: the pipes to the child's stdin, stdout and stderr
    extChild,   \* run_external: the child process
    extOutput,  \* run_external: the bytes wait_with_output has collected
    extRet      \* run_external: the value it returned, or NoRet

pvars == <<line, baseEnv, parsed>>
gvars == <<gMatch, gAfter, gSt>>
wvars == <<wBytes, wCounts>>
xvars == <<cmds, pcMain, pipes, wk, child, nSpawned, results, finalStdout, ret, ioLog, pcRepl,
          doneOrder, pipeEnv, handed>>
svars == <<script, hostEnv, nRead, shellEnv, atRead, hist, replRet>>
bvars == <<bCall, bRes>>
evars == <<extPc, extInput, extPipes, extChild, extOutput, extRet>>
nonExec == <<pvars, gvars, wvars, bvars, evars>>
vars == <<pvars, gvars, wvars, xvars, svars, bvars, evars>>

(***************************************************************************)
(* Bounds of the model.                                                    *)
(***************************************************************************)
\* A line is the concatenation of at most MaxUnits lexical units.
MaxUnits == 5
\* grep searches at most MaxGrepLines source lines.
MaxGrepLines == 4
\* wc counts at most MaxBytes bytes.
MaxBytes == 5
\* A pipeline has at most MaxStages stages.
MaxStages == 2
\* A stage writes at most MaxOut bytes to its stdout.
MaxOut == 2
\* An OS pipe buffers at most PipeCap bytes.
PipeCap == 1
\* the number of lines of a session
MaxLines == 2
\* the length of the value of a variable whose characters are syntax
MaxValueLen == 2

(***************************************************************************)
(* Characters.                                                             *)
(***************************************************************************)
SQ == "'"
DQ == "\""
SP == " "
TAB == "\t"

\* char::is_ascii_alphabetic, restricted to the letters the model uses
AsciiAlpha == {"a", "b", "x", "y", "c", "e", "h", "i", "n", "o", "t", "v"}
\* the digits of char::is_ascii_alphanumeric the model uses
AsciiDigit == {"1"}

IsNameStart(c) == c = "_" \/ c \in AsciiAlpha
IsNameChar(c) == c = "_" \/ c \in AsciiAlpha \/ c \in AsciiDigit
IsBlank(c) == c = SP \/ c = TAB

None == [none |-> TRUE]
NotParsed == [notParsed |-> TRUE]

\* HashMap::get(..).unwrap_or("")
EnvGet(env, name) == IF name \in DOMAIN env THEN env[name] ELSE <<>>
\* HashMap::insert
EnvInsert(env, k, v) == [n \in DOMAIN env \cup {k} |-> IF n = k THEN v ELSE env[n]]
EmptyEnv == [n \in {} |-> <<>>]

\* index of the first "=" of a word, 0 when there is none (str::split_once)
RECURSIVE FirstEq(_, _)
FirstEq(w, i) ==
    IF i > Len(w) THEN 0
    ELSE IF w[i] = "=" THEN i
    ELSE FirstEq(w, i + 1)

\* parse_assignment without the check of the first character of the name
parse_assignment_AnyFirst(token) ==
    LET k == FirstEq(token, 1) IN
    IF k = 0 THEN None
    ELSE IF k = 1 THEN None
    ELSE IF ~(\A j \in 2..(k - 1) : IsNameChar(token[j])) THEN None
    ELSE [name |-> SubSeq(token, 1, k - 1), value |-> SubSeq(token, k + 1, Len(token))]

\* parse_assignment: Some((name, value)) or None
parse_assignment(token) ==
    LET k == FirstEq(token, 1) IN
    IF k = 0 THEN None
    ELSE IF k = 1 THEN None
    ELSE IF ~IsNameStart(token[1]) THEN None
    ELSE IF ~(\A j \in 2..(k - 1) : IsNameChar(token[j])) THEN None
    ELSE [name |-> SubSeq(token, 1, k - 1), value |-> SubSeq(token, k + 1, Len(token))]

\* the end (last index) of the longest run of name characters starting at i
RECURSIVE NameEnd(_, _)
NameEnd(input, i) ==
    IF i + 1 <= Len(input) /\ IsNameChar(input[i + 1]) THEN NameEnd(input, i + 1)
    ELSE i

\* try_read_var_name on the characters after position i - 1: the name and the
\* position of the first character not consumed, or None (nothing consumed)
try_read_var_name(input, i) ==
    IF i > Len(input) THEN None
    ELSE IF ~IsNameStart(input[i]) THEN None
    ELSE LET e == NameEnd(input, i) IN
         [name |-> SubSeq(input, i, e), next |-> e + 1]

\* the end of the run of blanks starting at i (the peek loops of both passes)
RECURSIVE BlankEnd(_, _)
BlankEnd(input, i) ==
    IF i + 1 <= Len(input) /\ IsBlank(input[i + 1]) THEN BlankEnd(input, i + 1)
    ELSE i

RECURSIVE Repeat(_, _)
Repeat(c, n) == IF n <= 0 THEN <<>> ELSE <<c>> \o Repeat(c, n - 1)

(***************************************************************************)
(* Pass A: expand_line.  st is the tuple of its local variables.           *)
(***************************************************************************)
ExpandInit(base_env) ==
    [out |-> <<>>, env |-> base_env, in_assignment_prefix |-> TRUE,
     current_assignment_word |-> <<>>, assignment_word_started |-> FALSE,
     mode |-> "Normal", committed |-> <<>>]

\* the closure finish_assignment_word; committed is the history of its calls
\* of `env.insert(k, v)`, in order
finish_assignment_word(st) ==
    IF ~st.assignment_word_started THEN st
    ELSE LET word == st.current_assignment_word
             s1 == [st EXCEPT !.current_assignment_word = <<>>,
                              !.assignment_word_started = FALSE]
         IN IF ~st.in_assignment_prefix THEN s1
            ELSE LET a == parse_assignment(word) IN
                 IF a # None
                 THEN [s1 EXCEPT !.env = EnvInsert(st.env, a.name, a.value),
                                 !.committed = Append(@, <<a.name, a.value>>)]
                 ELSE [s1 EXCEPT !.in_assignment_prefix = FALSE]

\* both `$` arms: a reference is replaced by its value, a lone `$` is kept
ExpandDollar(st, input, i) ==
    LET r == try_read_var_name(input, i + 1) IN
    IF r # None
    THEN LET val == EnvGet(st.env, r.name) IN
         [st |-> [st EXCEPT !.out = @ \o val,
                            !.current_assignment_word = @ \o val,
                            !.assignment_word_started = TRUE],
          next |-> r.next]
    ELSE [st |-> [st EXCEPT !.out = Append(@, "$"),
                            !.current_assignment_word = Append(@, "$"),
                            !.assignment_word_started = TRUE],
          next |-> i + 1]

ExpandLiteral(st, ch) ==
    [st EXCEPT !.out = Append(@, ch),
               !.current_assignment_word = Append(@, ch),
               !.assignment_word_started = TRUE]

\* the arm Mode::Normal of the loop of expand_line, at character i
ExpandNormal(st, input, i) ==
    LET ch == input[i] IN
    IF IsBlank(ch)
    THEN LET e == BlankEnd(input, i) IN
         [st |-> [finish_assignment_word(st) EXCEPT !.out = @ \o Repeat(ch, e - i + 1)],
          next |-> e + 1]
    ELSE IF ch = "|"
    THEN [st |-> [finish_assignment_word(st) EXCEPT !.in_assignment_prefix = FALSE,
                                                    !.out = Append(@, "|")],
          next |-> i + 1]
    ELSE IF ch = SQ
    THEN [st |-> [st EXCEPT !.mode = "InSingleQuote", !.out = Append(@, SQ),
                            !.assignment_word_started = TRUE],
          next |-> i + 1]
    ELSE IF ch = DQ
    THEN [st |-> [st EXCEPT !.mode = "InDoubleQuote", !.out = Append(@, DQ),
                            !.assignment_word_started = TRUE],
          next |-> i + 1]
    ELSE IF ch = "$" THEN ExpandDollar(st, input, i)
    ELSE [st |-> ExpandLiteral(st, ch), next |-> i + 1]

\* the arm Mode::InSingleQuote, closing at either kind of quote
ExpandInSingleQuote_AnyQuote(st, input, i) ==
    LET ch == input[i] IN
    IF ch = SQ \/ ch = DQ
    THEN [st |-> [st EXCEPT !.mode = "Normal", !.out = Append(@, ch)], next |-> i + 1]
    ELSE [st |-> ExpandLiteral(st, ch), next |-> i + 1]

\* the arm Mode::InSingleQuote
ExpandInSingleQuote(st, input, i) ==
    LET ch == input[i] IN
    IF ch = SQ
    THEN [st |-> [st EXCEPT !.mode = "Normal", !.out = Append(@, SQ)], next |-> i + 1]
    ELSE [st |-> ExpandLiteral(st, ch), next |-> i + 1]

\* the arm Mode::InDoubleQuote
ExpandInDoubleQuote(st, input, i) ==
    LET ch == input[i] IN
    IF ch = DQ
    THEN [st |-> [st EXCEPT !.mode = "Normal", !.out = Append(@, DQ)], next |-> i + 1]
    ELSE IF ch = "$" THEN ExpandDollar(st, input, i)
    ELSE [st |-> ExpandLiteral(st, ch), next |-> i + 1]

\* the loop `while let Some(ch) = chars.next()` of expand_line
RECURSIVE ExpandLoop(_, _, _)
ExpandLoop(input, i, st) ==
    IF i > Len(input) THEN st
    ELSE LET r == CASE st.mode = "Normal" -> ExpandNormal(st, input, i)
                    [] st.mode = "InSingleQuote" -> ExpandInSingleQuote(st, input, i)
                    [] OTHER -> ExpandInDoubleQuote(st, input, i)
         IN ExpandLoop(input, r.next, r.st)

UnclosedQuote(q) == [ok |-> FALSE, err |-> "UnclosedQuote", quote |-> q]
EmptyPipelineSegment == [ok |-> FALSE, err |-> "EmptyPipelineSegment"]

\* expand_line: Ok(out) or Err(UnclosedQuote); env is the working copy at the end
expand_line(input, base_env) ==
    LET st == ExpandLoop(input, 1, ExpandInit(base_env)) IN
    CASE st.mode = "Normal" ->
            [ok |-> TRUE, out |-> st.out, env |-> finish_assignment_word(st).env,
             committed |-> finish_assignment_word(st).committed]
      [] st.mode = "InSingleQuote" -> UnclosedQuote(SQ)
      [] OTHER -> UnclosedQuote(DQ)

(***************************************************************************)
(* Pass B: tokenize_with_pipes_and_quotes.                                 *)
(***************************************************************************)
Word(w) == [t |-> "Word", w |-> w]
Pipe == [t |-> "Pipe"]

TokInit == [tokens |-> <<>>, current |-> <<>>, mode |-> "Normal", token_started |-> FALSE]

\* the flush of the current token, with a token that is empty dropped
TokFlush_SkipEmpty(ts) ==
    IF ts.token_started /\ ts.current # <<>>
    THEN [ts EXCEPT !.tokens = Append(@, Word(ts.current)), !.current = <<>>,
                    !.token_started = FALSE]
    ELSE [ts EXCEPT !.token_started = FALSE]

\* `if token_started { tokens.push(Word(take(current))); token_started = false }`
TokFlush(ts) ==
    IF ts.token_started
    THEN [ts EXCEPT !.tokens = Append(@, Word(ts.current)), !.current = <<>>,
                    !.token_started = FALSE]
    ELSE ts

\* the loop of tokenize_with_pipes_and_quotes
RECURSIVE TokLoop(_, _, _)
TokLoop(input, i, ts) ==
    IF i > Len(input) THEN ts
    ELSE LET ch == input[i] IN
         IF ts.mode = "Normal"
         THEN IF IsBlank(ch) THEN TokLoop(input, BlankEnd(input, i) + 1, TokFlush(ts))
              ELSE IF ch = "|"
              THEN TokLoop(input, i + 1, [TokFlush(ts) EXCEPT !.tokens = Append(@, Pipe)])
              ELSE IF ch = SQ
              THEN TokLoop(input, i + 1,
                           [ts EXCEPT !.mode = "InSingleQuote", !.token_started = TRUE])
              ELSE IF ch = DQ
              THEN TokLoop(input, i + 1,
                           [ts EXCEPT !.mode = "InDoubleQuote", !.token_started = TRUE])
              ELSE TokLoop(input, i + 1,
                           [ts EXCEPT !.current = Append(@, ch), !.token_started = TRUE])
         ELSE IF (ts.mode = "InSingleQuote" /\ ch = SQ) \/ (ts.mode = "InDoubleQuote" /\ ch = DQ)
         THEN TokLoop(input, i + 1, [ts EXCEPT !.mode = "Normal"])
         ELSE TokLoop(input, i + 1,
                      [ts EXCEPT !.current = Append(@, ch), !.token_started = TRUE])

tokenize_with_pipes_and_quotes(input) ==
    LET ts == TokLoop(input, 1, TokInit) IN
    CASE ts.mode = "Normal" -> [ok |-> TRUE, tokens |-> TokFlush(ts).tokens]
      [] ts.mode = "InSingleQuote" -> UnclosedQuote(SQ)
      [] OTHER -> UnclosedQuote(DQ)

(***************************************************************************)
(* split_assignments_prefix, parse_pipeline, parse_line.                   *)
(***************************************************************************)
\* the value of idx when the loop of split_assignments_prefix ends, plus one
RECURSIVE SplitIdx(_, _)
SplitIdx(tokens, idx) ==
    IF idx > Len(tokens) THEN idx
    ELSE IF tokens[idx].t = "Word" /\ parse_assignment(tokens[idx].w) # None
    THEN SplitIdx(tokens, idx + 1)
    ELSE idx

split_assignments_prefix(tokens) ==
    LET idx == SplitIdx(tokens, 1) IN
    [assignments |-> [j \in 1..(idx - 1) |->
                        LET a == parse_assignment(tokens[j].w) IN <<a.name, a.value>>],
     tokens |-> SubSeq(tokens, idx, Len(tokens))]

CommandSpec(current) == [name |-> Head(current), args |-> Tail(current)]

\* the loop of parse_pipeline over tokens[i..], with its locals commands, current
RECURSIVE PipelineLoop(_, _, _, _)
PipelineLoop(tokens, i, commands, current) ==
    IF i > Len(tokens)
    THEN [ok |-> TRUE, commands |-> commands, current |-> current]
    ELSE IF tokens[i].t = "Word"
    THEN PipelineLoop(tokens, i + 1, commands, Append(current, tokens[i].w))
    ELSE IF current = <<>> THEN EmptyPipelineSegment
    ELSE PipelineLoop(tokens, i + 1, Append(commands, CommandSpec(current)), <<>>)

\* parse_pipeline without the check after the loop: a trailing pipe is accepted
parse_pipeline_NoTailCheck(tokens) ==
    LET r == PipelineLoop(tokens, 1, <<>>, <<>>) IN
    IF ~r.ok THEN r
    ELSE IF r.current = <<>> THEN [ok |-> TRUE, commands |-> r.commands]
    ELSE [ok |-> TRUE, commands |-> Append(r.commands, CommandSpec(r.current))]

\* parse_pipeline: Ok(Pipeline { commands }) or Err(EmptyPipelineSegment)
parse_pipeline(tokens) ==
    LET r == PipelineLoop(tokens, 1, <<>>, <<>>) IN
    IF ~r.ok THEN r
    ELSE IF r.current = <<>> THEN EmptyPipelineSegment
    ELSE [ok |-> TRUE, commands |-> Append(r.commands, CommandSpec(r.current))]

\* parse_line: Ok(ParsedLine { assignments, pipeline }) or Err(ParseError)
parse_line(ln, base_env) ==
    LET expanded == expand_line(ln, base_env) IN
    IF ~expanded.ok THEN expanded
    ELSE LET tk == tokenize_with_pipes_and_quotes(expanded.out) IN
         IF ~tk.ok THEN tk
         ELSE LET sp == split_assignments_prefix(tk.tokens) IN
              IF sp.tokens = <<>>
              THEN [ok |-> TRUE, assignments |-> sp.assignments, pipeline |-> None]
              ELSE LET pl == parse_pipeline(sp.tokens) IN
                   IF ~pl.ok THEN pl
                   ELSE [ok |-> TRUE, assignments |-> sp.assignments,
                         pipeline |-> [commands |-> pl.commands]]

(***************************************************************************)
(* The parser's inputs: lines built from lexical units, and environments.  *)
(***************************************************************************)
Units == { <<"$", "a">>, <<"$", "b">>, <<"a", "=">>, <<SP>>, <<"|">>, <<SQ>>, <<DQ>>, <<"1">> }

RECURSIVE Flatten(_)
Flatten(ss) == IF ss = <<>> THEN <<>> ELSE Head(ss) \o Flatten(Tail(ss))

\* the lines of n units
LinesOf(n) == { Flatten(us) : us \in [1..n -> Units] }

NameA == <<"a">>
NameB == <<"b">>
BaseEnvs ==
    { EmptyEnv,
      [n \in {NameA} |-> <<"x">>],
      [n \in {NameB} |-> <<"x", SP, "y">>] }

ParserIdle == line = <<>> /\ baseEnv = EmptyEnv /\ parsed = NotParsed

InitParser ==
    /\ \E n \in 0..MaxUnits : line \in LinesOf(n)
    /\ baseEnv \in BaseEnvs
    /\ parsed = NotParsed

\* run_single_line hands the line to parse_line
ParseLine ==
    /\ parsed = NotParsed
    /\ parsed' = parse_line(line, baseEnv)
    /\ UNCHANGED <<line, baseEnv>>

(***************************************************************************)
(* Claims about the parser (checked under SpecParser).                     *)
(***************************************************************************)
IsParsed == parsed # NotParsed
Expanded == expand_line(line, baseEnv)
Tokens == tokenize_with_pipes_and_quotes(Expanded.out).tokens
Tokenized == Expanded.ok /\ tokenize_with_pipes_and_quotes(Expanded.out).ok

\* base overridden, left to right, by the first k of the assignments
RECURSIVE Override(_, _, _)
Override(base, assignments, k) ==
    IF k = 0 THEN base
    ELSE LET e == Override(base, assignments, k - 1) IN
         EnvInsert(e, assignments[k][1], assignments[k][2])

Min(a, b) == IF a <= b THEN a ELSE b

\* the number of tokens that end before the end of the text out
TokensLeftOf(out) == Len(TokLoop(out, 1, TokInit).tokens)

\* The expansion the specification describes: every reference outside single
\* quotes is replaced by the value of its name in base overridden by the
\* returned assignments that stand to the left of the reference.
RECURSIVE RefExpand(_, _, _, _, _, _)
RefExpand(input, i, q, out, base, assignments) ==
    IF i > Len(input) THEN out
    ELSE LET ch == input[i]
             r == try_read_var_name(input, i + 1)
         IN IF ch = "$" /\ q # SQ /\ r # None
            THEN LET k == Min(TokensLeftOf(out), Len(assignments))
                     val == EnvGet(Override(base, assignments, k), r.name)
                 IN RefExpand(input, r.next, q, out \o val, base, assignments)
            ELSE LET q2 == IF q = "" /\ (ch = SQ \/ ch = DQ) THEN ch
                           ELSE IF q = ch THEN "" ELSE q
                 IN RefExpand(input, i + 1, q2, Append(out, ch), base, assignments)

\* C3: every $NAME reference outside single quotes is replaced by the value NAME
\* has in the base environment overridden, left to right, by the assignments
\* that parse_line returns and that stand to the left of the reference.
C3_ReferencesUseLeftAssignments ==
    (IsParsed /\ parsed.ok) =>
        Expanded.out = RefExpand(line, 1, "", <<>>, baseEnv, parsed.assignments)

\* a word of the form NAME=value with NAME matching [A-Za-z_][A-Za-z0-9_]*
IsAssignmentWord(w) ==
    \E k \in 2..Len(w) :
        /\ w[k] = "="
        /\ \A j \in 1..(k - 1) : w[j] # "="
        /\ IsNameStart(w[1])
        /\ \A j \in 2..(k - 1) : IsNameChar(w[j])

\* the tokens a sequence of commands is built from
RECURSIVE StageTokens(_)
StageTokens(commands) ==
    IF commands = <<>> THEN <<>>
    ELSE LET c == Head(commands)
             ws == <<Word(c.name)>> \o [j \in 1..Len(c.args) |-> Word(c.args[j])]
         IN IF Len(commands) = 1 THEN ws
            ELSE ws \o <<Pipe>> \o StageTokens(Tail(commands))

PipelineTokens(pl) == IF pl = None THEN <<>> ELSE StageTokens(pl.commands)

\* C4: the assignments of a parsed line are exactly the longest prefix of the
\* token sequence made of Words NAME=value with a valid NAME, and the remaining
\* tokens, unchanged and in order, are the tokens of the pipeline's stages.
C4_AssignmentsAreLongestPrefix ==
    (IsParsed /\ parsed.ok) =>
        LET n == Len(parsed.assignments)
            toks == Tokens
        IN
        /\ n <= Len(toks)
        /\ \A j \in 1..n :
              /\ toks[j].t = "Word"
              /\ IsAssignmentWord(toks[j].w)
              /\ toks[j].w = parsed.assignments[j][1] \o <<"=">> \o parsed.assignments[j][2]
              /\ \A i \in 1..Len(parsed.assignments[j][1]) : parsed.assignments[j][1][i] # "="
        /\ n < Len(toks) =>
              (toks[n + 1].t = "Pipe" \/ ~IsAssignmentWord(toks[n + 1].w))
        /\ PipelineTokens(parsed.pipeline) = SubSeq(toks, n + 1, Len(toks))

\* an assignment followed by a command whose name is the non-assignment `1a=`
C4_Witness ==
    /\ IsParsed /\ parsed.ok
    /\ Len(parsed.assignments) = 1
    /\ parsed.pipeline # None
    /\ parsed.pipeline.commands[1].name = <<"1", "a", "=">>

\* C5: every pipeline parse_line returns has at least one stage and no stage
\* whose command name is the empty string.
C5_NoEmptyStageName ==
    (IsParsed /\ parsed.ok /\ parsed.pipeline # None) =>
        /\ Len(parsed.pipeline.commands) >= 1
        /\ \A j \in 1..Len(parsed.pipeline.commands) :
              parsed.pipeline.commands[j].name # <<>>

\* a leading pipe, a trailing pipe or two consecutive pipes
HasEmptySegment(rest) ==
    /\ rest # <<>>
    /\ \/ rest[1].t = "Pipe"
       \/ rest[Len(rest)].t = "Pipe"
       \/ \E i \in 1..(Len(rest) - 1) : rest[i].t = "Pipe" /\ rest[i + 1].t = "Pipe"

RestTokens == split_assignments_prefix(Tokens).tokens
NumPipes(rest) == Cardinality({i \in 1..Len(rest) : rest[i].t = "Pipe"})

\* C8: for a line that tokenizes, parse_line returns EmptyPipelineSegment exactly
\* when the tokens after the assignment prefix have an empty segment; otherwise
\* every segment is one command, its first word the name and the rest the args.
C8_EmptySegmentExactly ==
    (IsParsed /\ Tokenized) =>
        LET rest == RestTokens IN
        /\ (parsed = EmptyPipelineSegment) <=> HasEmptySegment(rest)
        /\ ~HasEmptySegment(rest) =>
              /\ parsed.ok
              /\ (parsed.pipeline = None) <=> (rest = <<>>)
              /\ parsed.pipeline # None =>
                    /\ Len(parsed.pipeline.commands) = NumPipes(rest) + 1
                    /\ StageTokens(parsed.pipeline.commands) = rest

\* a command followed by a trailing pipe is rejected
C8_Witness ==
    /\ IsParsed /\ Tokenized
    /\ parsed = EmptyPipelineSegment
    /\ Len(RestTokens) = 2
    /\ RestTokens[1].t = "Word" /\ RestTokens[2].t = "Pipe"

\* the quote region the end of the line is in: "" (none), SQ or DQ
RECURSIVE OpenQuote(_, _, _)
OpenQuote(ln, i, q) ==
    IF i > Len(ln) THEN q
    ELSE LET ch == ln[i] IN
         IF q = "" THEN OpenQuote(ln, i + 1, IF ch = SQ \/ ch = DQ THEN ch ELSE "")
         ELSE OpenQuote(ln, i + 1, IF ch = q THEN "" ELSE q)

\* C9: when the line ends inside a quoted region, parse_line returns
\* UnclosedQuote(q) with q the character that opened the region; a quote of the
\* other kind inside an open region opens and closes nothing.
C9_UnclosedQuoteNamesOpener ==
    IsParsed =>
        LET q == OpenQuote(line, 1, "") IN
        q # "" => parsed = UnclosedQuote(q)

\* a single-quoted region left open that holds a double quote
C9_Witness ==
    /\ IsParsed
    /\ parsed = UnclosedQuote(SQ)
    /\ \E i \in 1..Len(line) : \E j \in (i + 1)..Len(line) : line[i] = SQ /\ line[j] = DQ

(***************************************************************************)
(* grep -A N: grep_bytes_into_output.  The regex match of a line is an     *)
(* input (gMatch); a source line is named by its index, from 0.            *)
(***************************************************************************)
\* the width in bits of usize and isize: a bound of the model, 64 in the build
UsizeBits == 4
UsizeMax == 2 ^ UsizeBits - 1
IsizeMax == 2 ^ (UsizeBits - 1) - 1

\* usize::saturating_add
saturating_add(a, b) == IF a + b > UsizeMax THEN UsizeMax ELSE a + b
\* `as isize`: the same bits read as a signed number
as_isize(u) == IF u > IsizeMax THEN u - 2 ^ UsizeBits ELSE u

GrepInitSt == [idx |-> 0, found |-> FALSE, print_until |-> -1, out |-> <<>>]

\* one iteration printing the context of a match at once, from the match on
grep_iteration_PrintContextAtMatch(st, is_match, after, n) ==
    LET until == IF is_match THEN saturating_add(st.idx, after) ELSE -1
        ctx == IF is_match
               THEN [j \in 1..(Min(until, n - 1) - st.idx + 1) |-> st.idx + j - 1]
               ELSE <<>>
    IN [idx |-> st.idx + 1, found |-> st.found \/ is_match,
        print_until |-> st.print_until, out |-> st.out \o ctx]

\* one iteration of `for (idx, line) in lines.iter().enumerate()`
grep_iteration(st, is_match, after, n) ==
    LET end == as_isize(saturating_add(st.idx, after))
        pu == IF is_match /\ end > st.print_until THEN end ELSE st.print_until
    IN [idx |-> st.idx + 1,
        found |-> st.found \/ is_match,
        print_until |-> pu,
        out |-> IF st.idx <= pu THEN Append(st.out, st.idx) ELSE st.out]

GrepIdle == gMatch = <<>> /\ gAfter = 0 /\ gSt = GrepInitSt

InitGrep ==
    /\ gMatch \in UNION { [1..n -> BOOLEAN] : n \in 0..MaxGrepLines }
    /\ gAfter \in 0..UsizeMax
    /\ gSt = GrepInitSt

GrepStep ==
    /\ gSt.idx < Len(gMatch)
    /\ gSt' = grep_iteration(gSt, gMatch[gSt.idx + 1], gAfter, Len(gMatch))
    /\ UNCHANGED <<gMatch, gAfter>>

GrepDone == gSt.idx = Len(gMatch)

\* C6: grep -A N emits each source line at most once and in increasing order
\* of line index, also when after-contexts overlap or a context line matches.
C6_GrepEmitsEachLineOnceInOrder ==
    \A i \in 1..Len(gSt.out) : \A j \in (i + 1)..Len(gSt.out) : gSt.out[i] < gSt.out[j]

\* two consecutive matching lines with -A 1 or 2: the contexts overlap
C6_Witness ==
    /\ GrepDone
    /\ gAfter >= 1 /\ gAfter <= 2
    /\ Len(gMatch) >= 3
    /\ gMatch[1] /\ gMatch[2]
    /\ Len(gSt.out) >= 3

\* the lines emitted once the loop has ended
Emitted == { gSt.out[k] : k \in 1..Len(gSt.out) }
\* line j lies in the window of a matching line i: i <= j <= i + N, the sum
\* taken in the integers
InWindowOfMatch(j) ==
    \E i \in 0..(Len(gMatch) - 1) : gMatch[i + 1] /\ i <= j /\ j <= i + gAfter

\* C26: for every N of -A that fits a usize and every input, line j is emitted
\* if and only if some matching line i has i <= j <= i + N (the sum not
\* wrapping); so every matching line is itself emitted.
C26_AfterContextIsTheWindow ==
    GrepDone =>
        /\ \A j \in 0..(Len(gMatch) - 1) : (j \in Emitted) <=> InWindowOfMatch(j)
        /\ \A i \in 0..(Len(gMatch) - 1) : gMatch[i + 1] => i \in Emitted

(***************************************************************************)
(* wc: count_wc. A byte is "a" (a letter), " ", LF, CR or "xFF" (a byte   *)
(* that is not valid UTF-8).                                               *)
(***************************************************************************)
LF == "\n"
CR == "\r"
BadByte == "xFF"
Replacement == "uFFFD"
Bytes == {"a", SP, LF, CR, BadByte}

\* String::from_utf8_lossy: an invalid byte becomes U+FFFD
from_utf8_lossy(bytes) ==
    [i \in 1..Len(bytes) |-> IF bytes[i] = BadByte THEN Replacement ELSE bytes[i]]

\* char::is_whitespace, on the characters of the model
is_whitespace(c) == c \in {SP, LF, CR, TAB}

\* str::lines: the text is cut after every LF; a line loses its final LF and
\* then a CR that stood before that LF; an empty tail is no line
RECURSIVE LinesFrom(_, _, _)
LinesFrom(text, i, cur) ==
    IF i > Len(text) THEN (IF cur = <<>> THEN <<>> ELSE <<cur>>)
    ELSE IF text[i] = LF
    THEN LET l == IF cur # <<>> /\ cur[Len(cur)] = CR
                  THEN SubSeq(cur, 1, Len(cur) - 1) ELSE cur
         IN <<l>> \o LinesFrom(text, i + 1, <<>>)
    ELSE LinesFrom(text, i + 1, Append(cur, text[i]))

str_lines(text) == LinesFrom(text, 1, <<>>)

\* str::split_whitespace().count(): the maximal runs of non-whitespace
RECURSIVE WordsFrom(_, _, _)
WordsFrom(text, i, inWord) ==
    IF i > Len(text) THEN 0
    ELSE IF is_whitespace(text[i]) THEN WordsFrom(text, i + 1, FALSE)
    ELSE (IF inWord THEN 0 ELSE 1) + WordsFrom(text, i + 1, TRUE)

split_whitespace_count(text) == WordsFrom(text, 1, FALSE)

\* count_wc counting the LF characters instead of the lines
count_wc_CountNewlines(bytes) ==
    LET text == from_utf8_lossy(bytes) IN
    <<Cardinality({i \in 1..Len(text) : text[i] = LF}),
      split_whitespace_count(text), Len(bytes)>>

\* count_wc: (line_count, word_count, byte_count)
count_wc(bytes) ==
    LET text == from_utf8_lossy(bytes) IN
    <<Len(str_lines(text)), split_whitespace_count(text), Len(bytes)>>

NotCounted == <<-1, -1, -1>>
WcIdle == wBytes = <<>> /\ wCounts = NotCounted

InitWc ==
    /\ wBytes \in UNION { [1..n -> Bytes] : n \in 0..MaxBytes }
    /\ wCounts = NotCounted

\* run_wc counts the bytes of the file or of stdin
CountWc ==
    /\ wCounts = NotCounted
    /\ wCounts' = count_wc(wBytes)
    /\ UNCHANGED wBytes

IsTerminatorChar(c) == c = CR \/ c = LF
NumAt(bytes, S) == Cardinality({i \in 1..Len(bytes) : bytes[i] \in S})
\* the first characters of the maximal runs of non-whitespace
NumWordStarts(bytes) ==
    Cardinality({i \in 1..Len(bytes) :
        /\ ~is_whitespace(bytes[i])
        /\ (i = 1 \/ is_whitespace(bytes[i - 1]))})

\* the lines obtained by splitting on CR, LF or CRLF: one per terminator (a CR
\* directly before an LF forms one terminator with it), plus a non-empty tail
LinesSplitOnCrLfCrlf(bytes) ==
    LET n == Len(bytes)
        crlf == Cardinality({i \in 1..(n - 1) : bytes[i] = CR /\ bytes[i + 1] = LF})
    IN NumAt(bytes, {CR, LF}) - crlf
       + (IF n > 0 /\ ~IsTerminatorChar(bytes[n]) THEN 1 ELSE 0)

\* the lines obtained by splitting on LF or CRLF only
LinesSplitOnLf(bytes) ==
    LET n == Len(bytes) IN
    NumAt(bytes, {LF}) + (IF n > 0 /\ bytes[n] # LF THEN 1 ELSE 0)

\* C7 (with a bare CR ending a line): lines = the lines split on CR, LF or CRLF without an empty
\* tail, words = the maximal runs of non-whitespace, bytes = the byte length.
C7_WcCountsCrTerminates ==
    wCounts # NotCounted =>
        wCounts = <<LinesSplitOnCrLfCrlf(wBytes), NumWordStarts(wBytes), Len(wBytes)>>

\* C7 (with only LF ending a line): lines = the lines split on LF or CRLF without an empty tail (a
\* bare CR ends no line), words and bytes as stated; no bytes give 0 0 0.
C7_WcCountsLfTerminates ==
    wCounts # NotCounted =>
        /\ wCounts = <<LinesSplitOnLf(wBytes), NumWordStarts(wBytes), Len(wBytes)>>
        /\ wBytes = <<>> => wCounts = <<0, 0, 0>>

\* a bare CR between two words, the last line unterminated: one line, two words
C7_Witness ==
    /\ wBytes = <<"a", CR, "a">>
    /\ wCounts = <<1, 2, 3>>

(***************************************************************************)
(* The pipeline executor: run_pipeline, run_single_command and             *)
(* run_pipeline_with_os_pipes (mod.rs), run under run_repl for one line.   *)
(*                                                                         *)
(* A stage is described by what its command does: kind is "builtin" (echo, *)
(* pwd, or cat, grep, wc with file operands), "filter" (cat, wc or grep    *)
(* PATTERN without a file operand, which work on their stdin), "exit",     *)
(* "external" (a program that spawns) or "missing" (a program whose spawn  *)
(* fails with NotFound); out is the number of bytes it writes to stdout;   *)
(* code is its exit code, and a command that ends with a non-zero code     *)
(* writes one message to its stderr; consume tells whether an external     *)
(* program reads its stdin to end-of-file before it writes, or never reads *)
(* it.  For a filter out and code tell what it does when it has a stdin.   *)
(*                                                                         *)
(* Pipe i carries the stdout of stage i to the stdin of stage i + 1; pipe  *)
(* N is the parent-facing pipe.  A pipe holds at most PipeCap bytes, and   *)
(* each end is open as long as some thread or process holds it.            *)
(***************************************************************************)
BuiltinCmds == { [kind |-> "builtin", out |-> o, code |-> c, consume |-> TRUE] :
                    o \in 0..MaxOut, c \in 0..1 }
ExitCmds == { [kind |-> "exit", out |-> 0, code |-> c, consume |-> FALSE] : c \in 0..1 }
ExternalCmds == { [kind |-> "external", out |-> o, code |-> c, consume |-> r] :
                    o \in 0..MaxOut, c \in 0..1, r \in BOOLEAN }
MissingCmds == { [kind |-> "missing", out |-> 0, code |-> 0, consume |-> FALSE] }
Cmds == BuiltinCmds \cup ExitCmds \cup ExternalCmds \cup MissingCmds
FilterCmds == { [kind |-> "filter", out |-> o, code |-> c, consume |-> TRUE] :
                   o \in 0..MaxOut, c \in 0..1 }

\* Builtin::from_name(name).is_some()
IsBuiltin(cmd) == cmd.kind \in {"builtin", "exit", "filter"}

NStages == Len(cmds)

Main == <<"main", 0>>
Worker(i) == <<"worker", i>>
Child(i) == <<"child", i>>

NoRet == [ctl |-> "none"]
Continue(c) == [ctl |-> "Continue", code |-> c]
Exit(c) == [ctl |-> "Exit", code |-> c]
Err(e) == [ctl |-> "Err", e |-> e]

IoBrokenPipe == [kind |-> "Io", msg |-> "Broken pipe", stage |-> 0]
ProcessNotFound(i) == [kind |-> "Process", msg |-> "command not found", stage |-> i]

NoRes == [res |-> "none"]
OkRes(c, e) == [res |-> "Ok", exit_code |-> c, stderr |-> e]
ErrRes(e) == [res |-> "Err", e |-> e]

\* what a command writes to its stderr: one message, named by the stage
StderrOf(cmd, i) == IF cmd.code # 0 THEN <<i>> ELSE <<>>

\* `Some(buf)`: a stdin that holds n bytes
SomeInput(n) == [some |-> n]

\* run_cat, run_wc and run_grep without a file operand: `if let Some(input) = stdin`
FilterRuns(cmd, input) == cmd.kind = "filter" => input # None

\* run_builtin_with_input on the stdin input: the exit code, the number of bytes
\* written to stdout, the messages on stderr; a filter without stdin writes
\* `missing file operand` and returns 2
StageCode(cmd, input) == IF FilterRuns(cmd, input) THEN cmd.code ELSE 2
StageOut(cmd, input) == IF FilterRuns(cmd, input) THEN cmd.out ELSE 0
StageStderr(cmd, i, input) == IF StageCode(cmd, input) # 0 THEN <<i>> ELSE <<>>

StderrEvent(i) == [to |-> "stderr", src |-> "stage", stage |-> i, n |-> 1]
StdoutEvent(n) == [to |-> "stdout", src |-> "pipeline", stage |-> 0, n |-> n]
ExitInPipelineEvent == [to |-> "stderr", src |-> "exit: cannot be used in pipeline",
                        stage |-> 0, n |-> 1]
ReplErrorEvent(e) == [to |-> "stderr", src |-> e.msg, stage |-> e.stage, n |-> 1]

\* dropping an end of a pipe (pipe 0 stands for the absent stdin of stage 1)
CloseReader(ps, i, h) == IF i = 0 THEN ps ELSE [ps EXCEPT ![i].readers = @ \ {h}]
CloseWriter(ps, i, h) == [ps EXCEPT ![i].writers = @ \ {h}]
\* the drop of a stage's ends leaving its writer open
CloseBoth_KeepWriter(ps, i, h) == CloseReader(ps, i - 1, h)
\* dropping the Command of an external stage, or the ends a closure owns
CloseBoth(ps, i, h) == CloseWriter(CloseReader(ps, i - 1, h), i, h)

ExecIdle ==
    /\ cmds = <<>> /\ pcMain = "idle" /\ pipes = <<>> /\ wk = <<>> /\ child = <<>>
    /\ nSpawned = 0 /\ results = <<>> /\ finalStdout = 0 /\ ret = NoRet
    /\ ioLog = <<>> /\ pcRepl = "idle" /\ doneOrder = <<>>
    /\ pipeEnv = EmptyEnv /\ handed = {}

NoCode == -1
NoCur == [env0 |-> EmptyEnv, io0 |-> 0]

ReplIdle ==
    /\ script = <<>> /\ hostEnv = EmptyEnv /\ nRead = 0 /\ shellEnv = EmptyEnv
    /\ atRead = NoCur /\ hist = <<>> /\ replRet = NoCode

InitExec ==
    /\ cmds \in UNION { [1..n -> Cmds] : n \in 1..MaxStages }
    /\ pcMain = "start"
    /\ pipes = <<>>
    /\ wk = [i \in 1..Len(cmds) |-> [pc |-> "unspawned", towrite |-> 0, res |-> NoRes, input |-> None]]
    /\ child = [i \in 1..Len(cmds) |->
                  [st |-> "none", eof |-> FALSE, towrite |-> 0, status |-> "none"]]
    /\ nSpawned = 0
    /\ results = <<>>
    /\ finalStdout = 0
    /\ ret = NoRet
    /\ ioLog = <<>>
    /\ pcRepl = "run"
    /\ doneOrder = <<>>
    /\ pipeEnv = EmptyEnv
    /\ handed = {}

\* `cmd.env_clear()`: the Command inherits nothing
env_clear(e) == EmptyEnv
\* `cmd.envs(vars)`: every pair of vars is set
envs(e, vs) == [n \in DOMAIN e \cup DOMAIN vs |-> IF n \in DOMAIN vs THEN vs[n] ELSE e[n]]

\* the environment of a Command that is left to inherit the process environment
CommandEnv_Inherit(vs) == hostEnv

\* the environment of a child: the process environment cleared, then vs set
CommandEnv(vs) == envs(env_clear(hostEnv), vs)

\* the child of stage i of the line being run was handed the environment e
Handed(i, e) == [line |-> nRead, stage |-> i, env |-> e]

\* the result of a single command, with a program that is not found ending the session
SingleCommandResult_ExitOnMissing(cmd) ==
    CASE cmd.kind = "exit" -> Exit(cmd.code)
      [] cmd.kind = "missing" -> Exit(127)
      [] OTHER -> Continue(cmd.code)

\* run_external, or a builtin run by run_builtin: the result of a single command
SingleCommandResult(cmd) ==
    CASE cmd.kind = "exit" -> Exit(cmd.code)
      [] cmd.kind = "missing" -> Err(ProcessNotFound(1))
      [] OTHER -> Continue(StageCode(cmd, None))

\* run_pipeline with one command: run_single_command
RunSingleCommand ==
    /\ pcMain = "start"
    /\ NStages = 1
    /\ ret' = SingleCommandResult(cmds[1])
    /\ ioLog' = IF cmds[1].kind \in {"exit", "missing"} THEN ioLog
                ELSE ioLog \o <<StdoutEvent(StageOut(cmds[1], None))>>
                           \o [j \in 1..Len(StageStderr(cmds[1], 1, None)) |-> StderrEvent(1)]
    /\ handed' = IF cmds[1].kind = "external"
                 THEN handed \cup {Handed(1, CommandEnv(shellEnv))} ELSE handed
    /\ pcMain' = "done"
    /\ UNCHANGED <<nonExec, svars, pipeEnv, doneOrder, cmds, pipes, wk, child, nSpawned, results,
                   finalStdout, pcRepl>>

\* the test for `exit` looking at the last stage only
HasExitStage_LastOnly == cmds[NStages].kind = "exit"

\* `pipeline.commands.iter().any(|c| c.name == "exit")`
HasExitStage == \E i \in 1..NStages : cmds[i].kind = "exit"

\* run_pipeline: `exit` in a pipeline of two or more stages is rejected
RejectExitInPipeline ==
    /\ pcMain = "start"
    /\ NStages >= 2
    /\ HasExitStage
    /\ ioLog' = Append(ioLog, ExitInPipelineEvent)
    /\ ret' = Continue(2)
    /\ pcMain' = "done"
    /\ UNCHANGED <<nonExec, svars, pipeEnv, handed, doneOrder, cmds, pipes, wk, child, nSpawned, results, finalStdout, pcRepl>>

\* run_pipeline_with_os_pipes: the N - 1 pipes and the parent-facing pipe
CreatePipes ==
    /\ pcMain = "start"
    /\ NStages >= 2
    /\ ~HasExitStage
    /\ pipeEnv' = shellEnv
    /\ pipes' = [i \in 1..NStages |-> [buf |-> 0, readers |-> {Main}, writers |-> {Main}]]
    /\ pcMain' = "spawn"
    /\ UNCHANGED <<nonExec, svars, handed, doneOrder, cmds, wk, child, nSpawned, results, finalStdout, ret, ioLog, pcRepl>>

\* the spawn loop handing every stage a stdin, the first one an empty one
ClosureInput_FirstIsEmpty(idx) == SomeInput(0)
\* the spawn loop handing no stage a stdin
ClosureInput_NeverPresent(idx) == None
\* `stdin_pipe` of the closure of stage idx: None for the first stage, else the
\* read end of pipe idx - 1, from which a builtin stage fills `input`
ClosureInput(idx) == IF idx = 1 THEN None ELSE SomeInput(0)

\* the closure of a builtin stage running the builtin without reading its stdin
FirstPc_NoRead(idx) == IF IsBuiltin(cmds[idx]) THEN "run" ELSE "spawn"

\* where the closure of stage idx starts
FirstPc(idx) ==
    IF IsBuiltin(cmds[idx]) THEN (IF idx = 1 THEN "run" ELSE "read") ELSE "spawn"

\* the spawn loop run sequentially: stage idx starts when stage idx - 1 has ended
SpawnWorker_Sequential ==
    /\ pcMain = "spawn"
    /\ LET idx == nSpawned + 1 IN
       /\ IF idx = 1 THEN TRUE ELSE wk[idx - 1].pc = "done"
       /\ pipes' = [i \in 1..NStages |->
                      [buf |-> pipes[i].buf,
                       readers |-> IF i = idx - 1 THEN (pipes[i].readers \ {Main}) \cup {Worker(idx)}
                                   ELSE pipes[i].readers,
                       writers |-> IF i = idx THEN (pipes[i].writers \ {Main}) \cup {Worker(idx)}
                                   ELSE pipes[i].writers]]
       /\ wk' = [wk EXCEPT ![idx].pc = FirstPc(idx), ![idx].input = ClosureInput(idx)]
       /\ nSpawned' = idx
       /\ pcMain' = IF idx = NStages THEN "read_final" ELSE "spawn"
    /\ UNCHANGED <<nonExec, svars, pipeEnv, handed, doneOrder, cmds, child, results, finalStdout, ret, ioLog, pcRepl>>

\* the spawn loop handing the worker a clone of the writer: main keeps its own
SpawnWorker_MainKeepsWriter ==
    /\ pcMain = "spawn"
    /\ LET idx == nSpawned + 1 IN
       /\ pipes' = [i \in 1..NStages |->
                      [buf |-> pipes[i].buf,
                       readers |-> IF i = idx - 1 THEN (pipes[i].readers \ {Main}) \cup {Worker(idx)}
                                   ELSE pipes[i].readers,
                       writers |-> IF i = idx THEN pipes[i].writers \cup {Worker(idx)}
                                   ELSE pipes[i].writers]]
       /\ wk' = [wk EXCEPT ![idx].pc = FirstPc(idx), ![idx].input = ClosureInput(idx)]
       /\ nSpawned' = idx
       /\ pcMain' = IF idx = NStages THEN "read_final" ELSE "spawn"
    /\ UNCHANGED <<nonExec, svars, pipeEnv, handed, doneOrder, cmds, child, results, finalStdout, ret, ioLog, pcRepl>>

\* one iteration of the spawn loop: the ends of stage idx move into its closure
SpawnWorker ==
    /\ pcMain = "spawn"
    /\ LET idx == nSpawned + 1 IN
       /\ pipes' = [i \in 1..NStages |->
                      [buf |-> pipes[i].buf,
                       readers |-> IF i = idx - 1 THEN (pipes[i].readers \ {Main}) \cup {Worker(idx)}
                                   ELSE pipes[i].readers,
                       writers |-> IF i = idx THEN (pipes[i].writers \ {Main}) \cup {Worker(idx)}
                                   ELSE pipes[i].writers]]
       /\ wk' = [wk EXCEPT ![idx].pc = FirstPc(idx), ![idx].input = ClosureInput(idx)]
       /\ nSpawned' = idx
       /\ pcMain' = IF idx = NStages THEN "read_final" ELSE "spawn"
    /\ UNCHANGED <<nonExec, svars, pipeEnv, handed, doneOrder, cmds, child, results, finalStdout, ret, ioLog, pcRepl>>

\* a builtin stage: `r.read_to_end(&mut buf)` on the stdin pipe
BuiltinRead(i) ==
    /\ wk[i].pc = "read"
    /\ IF pipes[i - 1].buf > 0
       THEN /\ pipes' = [pipes EXCEPT ![i - 1].buf = 0]
            /\ wk' = [wk EXCEPT ![i].input = IF @ = None THEN None
                                             ELSE SomeInput(@.some + pipes[i - 1].buf)]
       ELSE /\ pipes[i - 1].writers = {}
            /\ pipes' = CloseReader(pipes, i - 1, Worker(i))
            /\ wk' = [wk EXCEPT ![i].pc = "run"]
    /\ UNCHANGED <<nonExec, svars, pipeEnv, handed, doneOrder, cmds, pcMain, child, nSpawned, results, finalStdout, ret, ioLog, pcRepl>>

\* a builtin stage: run_builtin_with_input on in-memory streams
BuiltinRun(i) ==
    /\ wk[i].pc = "run"
    /\ wk' = [wk EXCEPT ![i].pc = "write", ![i].towrite = StageOut(cmds[i], wk[i].input)]
    /\ UNCHANGED <<nonExec, svars, pipeEnv, handed, doneOrder, cmds, pcMain, pipes, child, nSpawned, results, finalStdout, ret,
                   ioLog, pcRepl>>

\* a builtin stage: `w.write_all(&out)`, `drop(w)` and the return
BuiltinWrite(i) ==
    /\ wk[i].pc = "write"
    /\ IF wk[i].towrite = 0
       THEN /\ pipes' = CloseWriter(pipes, i, Worker(i))
            /\ wk' = [wk EXCEPT ![i].pc = "done",
                                ![i].res = OkRes(StageCode(cmds[i], wk[i].input),
                                                 StageStderr(cmds[i], i, wk[i].input))]
            /\ doneOrder' = Append(doneOrder, i)
       ELSE IF pipes[i].readers = {}
       THEN /\ pipes' = CloseWriter(pipes, i, Worker(i))
            /\ wk' = [wk EXCEPT ![i].pc = "done", ![i].res = ErrRes(IoBrokenPipe)]
            /\ doneOrder' = Append(doneOrder, i)
       ELSE /\ pipes[i].buf < PipeCap
            /\ LET k == Min(wk[i].towrite, PipeCap - pipes[i].buf) IN
               /\ pipes' = [pipes EXCEPT ![i].buf = @ + k]
               /\ wk' = [wk EXCEPT ![i].towrite = @ - k]
               /\ doneOrder' = doneOrder
    /\ UNCHANGED <<nonExec, svars, pipeEnv, handed, cmds, pcMain, child, nSpawned, results, finalStdout, ret, ioLog, pcRepl>>

\* an external stage: the Command takes both ends, then `cmd.spawn()`
ExternalSpawn(i) ==
    /\ wk[i].pc = "spawn"
    /\ IF cmds[i].kind = "missing"
       THEN /\ pipes' = CloseBoth(pipes, i, Worker(i))
            /\ wk' = [wk EXCEPT ![i].pc = "done", ![i].res = ErrRes(ProcessNotFound(i))]
            /\ child' = child
            /\ doneOrder' = Append(doneOrder, i)
            /\ handed' = handed
       ELSE /\ pipes' = [j \in 1..NStages |->
                           [buf |-> pipes[j].buf,
                            readers |-> IF j = i - 1 THEN pipes[j].readers \cup {Child(i)}
                                        ELSE pipes[j].readers,
                            writers |-> IF j = i THEN pipes[j].writers \cup {Child(i)}
                                        ELSE pipes[j].writers]]
            /\ wk' = [wk EXCEPT ![i].pc = "wait"]
            /\ child' = [child EXCEPT ![i] = [st |-> "running", eof |-> (i = 1),
                                              towrite |-> cmds[i].out, status |-> "none"]]
            /\ doneOrder' = doneOrder
            /\ handed' = handed \cup {Handed(i, CommandEnv(pipeEnv))}
    /\ UNCHANGED <<nonExec, svars, pipeEnv, cmds, pcMain, nSpawned, results, finalStdout, ret, ioLog, pcRepl>>

\* the child of an external stage reads its stdin
ChildRead(i) ==
    /\ child[i].st = "running"
    /\ cmds[i].consume
    /\ ~child[i].eof
    /\ IF pipes[i - 1].buf > 0
       THEN /\ pipes' = [pipes EXCEPT ![i - 1].buf = 0]
            /\ child' = child
       ELSE /\ pipes[i - 1].writers = {}
            /\ pipes' = pipes
            /\ child' = [child EXCEPT ![i].eof = TRUE]
    /\ UNCHANGED <<nonExec, svars, pipeEnv, handed, doneOrder, cmds, pcMain, wk, nSpawned, results, finalStdout, ret, ioLog, pcRepl>>

\* the child has read what it reads
ChildInputDone(i) == ~cmds[i].consume \/ child[i].eof

\* the child writes its stdout; with no reader left it is killed by SIGPIPE
ChildWrite(i) ==
    /\ child[i].st = "running"
    /\ ChildInputDone(i)
    /\ child[i].towrite > 0
    /\ IF pipes[i].readers = {}
       THEN /\ pipes' = CloseBoth(pipes, i, Child(i))
            /\ child' = [child EXCEPT ![i].st = "exited", ![i].status = "signal"]
       ELSE /\ pipes[i].buf < PipeCap
            /\ LET k == Min(child[i].towrite, PipeCap - pipes[i].buf) IN
               /\ pipes' = [pipes EXCEPT ![i].buf = @ + k]
               /\ child' = [child EXCEPT ![i].towrite = @ - k]
    /\ UNCHANGED <<nonExec, svars, pipeEnv, handed, doneOrder, cmds, pcMain, wk, nSpawned, results, finalStdout, ret, ioLog, pcRepl>>

\* the child exits with its code
ChildExit(i) ==
    /\ child[i].st = "running"
    /\ ChildInputDone(i)
    /\ child[i].towrite = 0
    /\ pipes' = CloseBoth(pipes, i, Child(i))
    /\ child' = [child EXCEPT ![i].st = "exited", ![i].status = "code"]
    /\ UNCHANGED <<nonExec, svars, pipeEnv, handed, doneOrder, cmds, pcMain, wk, nSpawned, results, finalStdout, ret, ioLog, pcRepl>>

\* an external stage: `child.wait()`, the stderr helper joined, the return
WorkerWait(i) ==
    /\ wk[i].pc = "wait"
    /\ child[i].st = "exited"
    /\ pipes' = CloseBoth(pipes, i, Worker(i))
    /\ wk' = [wk EXCEPT ![i].pc = "done",
                        ![i].res = IF child[i].status = "signal" THEN OkRes(1, <<>>)
                                   ELSE OkRes(cmds[i].code, StderrOf(cmds[i], i))]
    /\ doneOrder' = Append(doneOrder, i)
    /\ UNCHANGED <<nonExec, svars, pipeEnv, handed, cmds, pcMain, child, nSpawned, results, finalStdout, ret, ioLog, pcRepl>>

\* `final_out_reader.read_to_end(&mut final_stdout)`
MainReadFinal ==
    /\ pcMain = "read_final"
    /\ IF pipes[NStages].buf > 0
       THEN /\ pipes' = [pipes EXCEPT ![NStages].buf = 0]
            /\ finalStdout' = finalStdout + pipes[NStages].buf
            /\ pcMain' = pcMain
       ELSE /\ pipes[NStages].writers = {}
            /\ pipes' = pipes
            /\ finalStdout' = finalStdout
            /\ pcMain' = "join"
    /\ UNCHANGED <<nonExec, svars, pipeEnv, handed, doneOrder, cmds, wk, child, nSpawned, results, ret, ioLog, pcRepl>>

\* the stage results whose stderr is not empty, as events in the given order
RECURSIVE StderrEvents(_, _)
StderrEvents(rs, i) ==
    IF i > Len(rs) THEN <<>>
    ELSE (IF rs[i].stderr # <<>> THEN <<StderrEvent(rs[i].stderr[1])>> ELSE <<>>)
         \o StderrEvents(rs, i + 1)

\* the first worker, in the order in which the workers ended, that returned Err
FirstFailedInTime ==
    LET failed == SelectSeq(doneOrder, LAMBDA i : wk[i].res.res = "Err") IN failed[1]

\* the join loop returning the error of the worker that failed first in time
MainJoin_FirstFailedInTime ==
    /\ pcMain = "join"
    /\ LET h == Len(results) + 1 IN
       /\ wk[h].pc = "done"
       /\ IF wk[h].res.res = "Err"
          THEN /\ ret' = Err(wk[FirstFailedInTime].res.e)
               /\ pcMain' = "done"
               /\ pipes' = CloseReader(pipes, NStages, Main)
               /\ results' = results
               /\ ioLog' = ioLog
          ELSE /\ results' = Append(results, wk[h].res)
               /\ pcMain' = IF h = NStages THEN "emit" ELSE "join"
               /\ ret' = ret
               /\ pipes' = pipes
               /\ ioLog' = ioLog
    /\ UNCHANGED <<nonExec, svars, pipeEnv, handed, doneOrder, cmds, wk, child, nSpawned, finalStdout, pcRepl>>

\* the join loop writing the stderr of the stages joined so far before it
\* returns the error
MainJoin_FlushOnError ==
    /\ pcMain = "join"
    /\ LET h == Len(results) + 1 IN
       /\ wk[h].pc = "done"
       /\ IF wk[h].res.res = "Err"
          THEN /\ ret' = Err(wk[h].res.e)
               /\ pcMain' = "done"
               /\ pipes' = CloseReader(pipes, NStages, Main)
               /\ results' = results
               /\ ioLog' = ioLog \o StderrEvents(results, 1)
          ELSE /\ results' = Append(results, wk[h].res)
               /\ pcMain' = IF h = NStages THEN "emit" ELSE "join"
               /\ ret' = ret
               /\ pipes' = pipes
               /\ ioLog' = ioLog
    /\ UNCHANGED <<nonExec, svars, pipeEnv, handed, doneOrder, cmds, wk, child, nSpawned, finalStdout, pcRepl>>

\* one iteration of `for h in handles`: `h.join()`, then `results.push(res?)`
MainJoin ==
    /\ pcMain = "join"
    /\ LET h == Len(results) + 1 IN
       /\ wk[h].pc = "done"
       /\ IF wk[h].res.res = "Err"
          THEN /\ ret' = Err(wk[h].res.e)
               /\ pcMain' = "done"
               /\ pipes' = CloseReader(pipes, NStages, Main)
               /\ results' = results
          ELSE /\ results' = Append(results, wk[h].res)
               /\ pcMain' = IF h = NStages THEN "emit" ELSE "join"
               /\ ret' = ret
               /\ pipes' = pipes
    /\ UNCHANGED <<nonExec, svars, pipeEnv, handed, doneOrder, cmds, wk, child, nSpawned, finalStdout, ioLog, pcRepl>>

\* what the end of run_pipeline_with_os_pipes writes, with stdout written first
EmitEvents_StdoutFirst(rs, out) == <<StdoutEvent(out)>> \o StderrEvents(rs, 1)

\* what the end of run_pipeline_with_os_pipes writes: the stderr of every stage
\* in command order, then the stdout of the pipeline
EmitEvents(rs, out) == StderrEvents(rs, 1) \o <<StdoutEvent(out)>>

\* `results.last().map(|r| r.exit_code).unwrap_or(0)` taking the first result
LastExit_First(rs) == IF rs = <<>> THEN 0 ELSE rs[1].exit_code

\* `results.last().map(|r| r.exit_code).unwrap_or(0)`
LastExit(rs) == IF rs = <<>> THEN 0 ELSE rs[Len(rs)].exit_code

\* the end of run_pipeline_with_os_pipes also keeping the exit code of the
\* pipeline in the interpreter environment, as the variable `_`
MainEmit_RecordsStatus ==
    /\ pcMain = "emit"
    /\ ioLog' = ioLog \o EmitEvents(results, finalStdout)
    /\ ret' = Continue(LastExit(results))
    /\ pcMain' = "done"
    /\ pipes' = CloseReader(pipes, NStages, Main)
    /\ shellEnv' = EnvInsert(shellEnv, <<"_">>, <<"x">>)
    /\ UNCHANGED <<nonExec, script, hostEnv, nRead, atRead, hist, replRet, pipeEnv, handed,
                   doneOrder, cmds, wk, child, nSpawned, results, finalStdout, pcRepl>>

\* the end of run_pipeline_with_os_pipes: the writes and Continue(last_exit)
MainEmit ==
    /\ pcMain = "emit"
    /\ ioLog' = ioLog \o EmitEvents(results, finalStdout)
    /\ ret' = Continue(LastExit(results))
    /\ pcMain' = "done"
    /\ pipes' = CloseReader(pipes, NStages, Main)
    /\ UNCHANGED <<nonExec, svars, pipeEnv, handed, doneOrder, cmds, wk, child, nSpawned, results, finalStdout, pcRepl>>

\* the match on the value of run_single_line, with an error ending the session
ReplHandle_ErrorEndsSession ==
    /\ pcRepl = "run"
    /\ pcMain = "done"
    /\ pcRepl' = IF ret.ctl \in {"Exit", "Err"} THEN "returned" ELSE "next_line"
    /\ ioLog' = IF ret.ctl = "Err" THEN Append(ioLog, ReplErrorEvent(ret.e)) ELSE ioLog
    /\ replRet' = IF ret.ctl = "Exit" THEN ret.code ELSE IF ret.ctl = "Err" THEN 1 ELSE replRet
    /\ hist' = Append(hist, ret)
    /\ UNCHANGED <<nonExec, script, hostEnv, nRead, shellEnv, atRead, pipeEnv, handed, doneOrder,
                   cmds, pcMain, pipes, wk, child, nSpawned, results, finalStdout, ret>>

\* run_repl: the match on the value of run_single_line
ReplHandle ==
    /\ pcRepl = "run"
    /\ pcMain = "done"
    /\ pcRepl' = IF ret.ctl = "Exit" THEN "returned" ELSE "next_line"
    /\ ioLog' = IF ret.ctl = "Err" THEN Append(ioLog, ReplErrorEvent(ret.e)) ELSE ioLog
    /\ replRet' = IF ret.ctl = "Exit" THEN ret.code ELSE replRet
    /\ hist' = Append(hist, ret)
    /\ UNCHANGED <<nonExec, script, hostEnv, nRead, shellEnv, atRead, pipeEnv, handed, doneOrder,
                   cmds, pcMain, pipes, wk, child, nSpawned, results, finalStdout, ret>>

(***************************************************************************)
(* A session: run_repl over the lines of an input stream (mod.rs 49-109).  *)
(* Each line is trimmed, parsed by parse_line, its assignments are applied *)
(* and its pipeline is run by the executor above.  The programs of the     *)
(* host are `env` (prints its environment, never reads stdin) and `tee`    *)
(* (copies stdin to stdout); any other name that is no builtin is not      *)
(* found.  Of the builtins a session runs `exit`, `echo` and, as a single  *)
(* command without operands, `cat`.  Pipelines of a session have at most   *)
(* two stages, so that no worker of a pipeline is left running when        *)
(* run_pipeline returns.                                                   *)
(***************************************************************************)
W_exit == <<"e", "x", "i", "t">>
W_echo == <<"e", "c", "h", "o">>
W_cat == <<"c", "a", "t">>
W_env == <<"e", "n", "v">>
W_tee == <<"t", "e", "e">>
W_no == <<"n", "o">>

\* the names Builtin::from_name knows among the words of the model
BuiltinNames == {W_exit, W_echo, W_cat}
\* the programs std::process::Command finds on the host
Installed == {W_env, W_tee}

\* str::trim on a line
RECURSIVE TrimStart(_)
TrimStart(s) == IF s # <<>> /\ IsBlank(Head(s)) THEN TrimStart(Tail(s)) ELSE s
RECURSIVE TrimEnd(_)
TrimEnd(s) ==
    IF s # <<>> /\ IsBlank(s[Len(s)]) THEN TrimEnd(SubSeq(s, 1, Len(s) - 1)) ELSE s
trim(s) == TrimEnd(TrimStart(s))

\* i32::MAX and i32::MIN
I32Max == 2147483647
I32Min == (-I32Max) - 1

\* char::to_digit(10): the value of a decimal digit, -1 for another character
to_digit(c) ==
    CASE c = "0" -> 0 [] c = "1" -> 1 [] c = "2" -> 2 [] c = "3" -> 3 [] c = "4" -> 4
      [] c = "5" -> 5 [] c = "6" -> 6 [] c = "7" -> 7 [] c = "8" -> 8 [] c = "9" -> 9
      [] OTHER -> -1

\* the digit loop of i32::from_str: `checked_mul(10)`, then `checked_add(d)`
\* for a positive and `checked_sub(d)` for a negative number; an overflow or a
\* character that is no digit gives None
RECURSIVE ParseDigits(_, _, _)
ParseDigits(s, acc, positive) ==
    IF s = <<>> THEN [some |-> acc]
    ELSE LET d == to_digit(Head(s)) IN
         IF d < 0 THEN None
         ELSE IF positive
         THEN (IF acc > I32Max \div 10 \/ acc * 10 > I32Max - d THEN None
               ELSE ParseDigits(Tail(s), acc * 10 + d, positive))
         ELSE (IF acc < -(I32Max \div 10) \/ acc * 10 < I32Min + d THEN None
               ELSE ParseDigits(Tail(s), acc * 10 - d, positive))

\* parse_i32 taking the digits only: a sign is an invalid character
parse_i32_NoSign(s) == IF s = <<>> THEN None ELSE ParseDigits(s, 0, TRUE)

\* `s.parse::<i32>().ok()`: the number, or None.  The empty string and a lone
\* sign are errors; one leading "+" or "-" is the sign
parse_i32(s) ==
    IF s = <<>> \/ s = <<"+">> \/ s = <<"-">> THEN None
    ELSE IF Head(s) = "+" THEN ParseDigits(Tail(s), 0, TRUE)
    ELSE IF Head(s) = "-" THEN ParseDigits(Tail(s), 0, FALSE)
    ELSE ParseDigits(s, 0, TRUE)

\* run_exit: `args.first().and_then(|s| s.parse::<i32>().ok()).unwrap_or(0)`
run_exit(args) ==
    IF args = <<>> THEN 0
    ELSE LET r == parse_i32(args[1]) IN IF r = None THEN 0 ELSE r.some

\* what the command of a stage does, as the executor sees it
StageOf(c) ==
    CASE c.name = W_exit ->
            [kind |-> "exit", out |-> 0, code |-> run_exit(c.args), consume |-> FALSE]
      [] c.name = W_echo ->
            [kind |-> "builtin", out |-> 1, code |-> 0, consume |-> TRUE]
      [] c.name = W_cat ->  \* with no operand and no pipe: "missing file operand"
            [kind |-> "builtin", out |-> 0, code |-> 2, consume |-> TRUE]
      [] c.name = W_env ->
            [kind |-> "external", out |-> 1, code |-> 0, consume |-> FALSE]
      [] c.name = W_tee ->
            [kind |-> "external", out |-> 1, code |-> 0, consume |-> TRUE]
      [] OTHER ->
            [kind |-> "missing", out |-> 0, code |-> 0, consume |-> FALSE]

\* ShellState::apply_assignments with the first assignment to a name winning
RECURSIVE apply_assignments_FirstWins(_, _)
apply_assignments_FirstWins(env, assignments) ==
    IF assignments = <<>> THEN env
    ELSE LET k == Head(assignments)[1] IN
         apply_assignments_FirstWins(
             IF k \in DOMAIN env THEN env ELSE EnvInsert(env, k, Head(assignments)[2]),
             Tail(assignments))

\* ShellState::apply_assignments: `for (k, v) in assignments { env.insert(k, v) }`
RECURSIVE apply_assignments(_, _)
apply_assignments(env, assignments) ==
    IF assignments = <<>> THEN env
    ELSE apply_assignments(EnvInsert(env, Head(assignments)[1], Head(assignments)[2]),
                           Tail(assignments))

ParseError(p) == [kind |-> "Parse", msg |-> p.err, stage |-> 0]
ReadErrorEvent == [to |-> "stderr", src |-> "I/O error", stage |-> 0, n |-> 1]

\* the lines of the sessions
ReplLines ==
    { W_exit,
      W_exit \o <<SP, "1">>,
      <<"a", "=", "1">>,
      <<SP>> \o <<"a", "=", "1", SP, "a", "=", "x", SP>> \o W_env \o <<SP>>,
      <<"b", "=", "1", SP>> \o W_no,
      <<"b", "=", "x", SP>> \o W_cat,
      W_echo \o <<SP, "$", "a">>,
      W_no,
      W_echo \o <<SP, "|", SP>> \o W_exit,
      <<SQ>>,
      <<"a", "=", "y", SP, "|">>,
      W_echo \o <<"|">> \o W_tee,
      W_env \o <<"|">> \o W_echo,
      W_echo \o <<"|">> \o W_no,
      <<SP>>,
      <<BadByte>> }

HostEnvs == { EmptyEnv, [n \in {NameA} |-> <<"x">>] }

\* a line that is not valid UTF-8: `reader.lines()` yields Err for it
IsUnreadable(raw) == \E i \in 1..Len(raw) : raw[i] = BadByte

InitRepl ==
    /\ \E n \in 0..MaxLines : script \in [1..n -> ReplLines]
    /\ hostEnv \in HostEnvs
    /\ shellEnv = hostEnv
    /\ nRead = 0
    /\ atRead = NoCur
    /\ hist = <<>>
    /\ replRet = NoCode
    /\ pcRepl = "read"
    /\ cmds = <<>> /\ pcMain = "idle" /\ pipes = <<>> /\ wk = <<>> /\ child = <<>>
    /\ nSpawned = 0 /\ results = <<>> /\ finalStdout = 0 /\ ret = NoRet
    /\ ioLog = <<>> /\ doneOrder = <<>> /\ pipeEnv = EmptyEnv /\ handed = {}

\* the stages run_pipeline is given for the parse p of a line
StagesOf(p) ==
    IF p.ok /\ p.pipeline # None
    THEN [i \in 1..Len(p.pipeline.commands) |-> StageOf(p.pipeline.commands[i])]
    ELSE <<>>

\* run_single_line on a line that was read: its value when it returns before
\* run_pipeline (an empty line, a parse error, no command), or NoRet
LineResult(trimmed, p) ==
    IF trimmed = <<>> THEN Continue(0)
    ELSE IF ~p.ok THEN Err(ParseError(p))
    ELSE IF p.pipeline = None THEN Continue(0)
    ELSE NoRet

\* run_single_line applying what Pass A committed when the parse fails later
LineEnv_ApplyCommitted(env, trimmed, p) ==
    IF trimmed = <<>> THEN env
    ELSE IF p.ok THEN apply_assignments(env, p.assignments)
    ELSE LET e == expand_line(trimmed, env) IN
         IF e.ok THEN apply_assignments(env, e.committed) ELSE env

\* run_single_line: `self.state.apply_assignments(parsed.assignments)`
LineEnv(env, trimmed, p) ==
    IF trimmed # <<>> /\ p.ok THEN apply_assignments(env, p.assignments) ELSE env

\* the body of the loop of run_repl for the line raw, trimmed and parsed to p
ReadLine(raw, trimmed, p, stages) ==
    /\ nRead' = nRead + 1
    /\ atRead' = [env0 |-> shellEnv, io0 |-> Len(ioLog)]
    /\ IF IsUnreadable(raw)
       THEN /\ ioLog' = Append(ioLog, ReadErrorEvent)
            /\ replRet' = 1
            /\ pcRepl' = "returned"
            /\ pcMain' = "idle"
            /\ ret' = NoRet
            /\ shellEnv' = shellEnv
            /\ cmds' = <<>>
       ELSE /\ ioLog' = ioLog
            /\ replRet' = replRet
            /\ pcRepl' = "run"
            /\ ret' = LineResult(trimmed, p)
            /\ pcMain' = IF ret' = NoRet THEN "start" ELSE "done"
            /\ shellEnv' = LineEnv(shellEnv, trimmed, p)
            /\ cmds' = IF ret' = NoRet THEN stages ELSE <<>>
    /\ wk' = [i \in 1..Len(cmds') |-> [pc |-> "unspawned", towrite |-> 0, res |-> NoRes, input |-> None]]
    /\ child' = [i \in 1..Len(cmds') |->
                   [st |-> "none", eof |-> FALSE, towrite |-> 0, status |-> "none"]]
    /\ pipes' = <<>> /\ nSpawned' = 0 /\ results' = <<>> /\ finalStdout' = 0
    /\ doneOrder' = <<>> /\ pipeEnv' = EmptyEnv
    /\ UNCHANGED <<nonExec, script, hostEnv, hist, handed>>

\* the parse of the line raw in the environment env
ParseOf(raw, env) == parse_line(trim(raw), env)

\* run_repl reads the next line; run_single_line trims and parses it, applies
\* its assignments and enters run_pipeline
ReplReadLine ==
    /\ pcRepl \in {"read", "next_line"}
    /\ nRead < Len(script)
    /\ ReadLine(script[nRead + 1], trim(script[nRead + 1]),
                ParseOf(script[nRead + 1], shellEnv),
                StagesOf(ParseOf(script[nRead + 1], shellEnv)))

\* run_repl at the end of the input: `0`
ReplEnd ==
    /\ pcRepl \in {"read", "next_line"}
    /\ nRead = Len(script)
    /\ replRet' = 0
    /\ pcRepl' = "returned"
    /\ UNCHANGED <<nonExec, script, hostEnv, nRead, shellEnv, atRead, hist, pipeEnv, handed, doneOrder,
                   cmds, pcMain, pipes, wk, child, nSpawned, results, finalStdout, ret, ioLog>>

(***************************************************************************)
(* Claims about the pipeline executor (checked under SpecExec).            *)
(***************************************************************************)
MultiStage == NStages >= 2
AnyStageNamedExit == \E i \in 1..NStages : cmds[i].kind = "exit"
EveryStageSpawns == \A i \in 1..NStages : cmds[i].kind # "missing"
Returned == pcMain = "done"

StderrLog == SelectSeq(ioLog, LAMBDA e : e.to = "stderr")
StdoutLog == SelectSeq(ioLog, LAMBDA e : e.to = "stdout")

\* C1: a multi-stage pipeline without `exit`, all of whose stages start,
\* returns Continue(c) with c the exit code of its last stage, under every
\* interleaving of the workers, whatever the earlier stages return and whether
\* or not a stage reads all that its predecessor writes.
C1_PipelineReturnsLastStageExit ==
    (Returned /\ MultiStage /\ ~AnyStageNamedExit /\ EveryStageSpawns) =>
        ret = Continue(cmds[NStages].code)

\* the stderr of the stages, stage 1 first, as the workers returned it
RECURSIVE StageStderrInOrder(_)
StageStderrInOrder(i) ==
    IF i > NStages THEN <<>>
    ELSE (IF wk[i].res.stderr # <<>> THEN <<StderrEvent(i)>> ELSE <<>>)
         \o StageStderrInOrder(i + 1)

\* C2: when a multi-stage pipeline completes, the interpreter stderr holds the
\* stderr of stage 1, then of stage 2, ..., whatever the order in which the
\* workers ended, and the stdout of the pipeline is written after all of it.
C2_StderrInCommandOrderThenStdout ==
    (Returned /\ MultiStage /\ ~AnyStageNamedExit /\ ret.ctl = "Continue") =>
        /\ StderrLog = StageStderrInOrder(1)
        /\ Len(StdoutLog) = 1
        /\ ioLog[Len(ioLog)].to = "stdout"
        /\ ioLog[Len(ioLog)].n = cmds[NStages].out

\* both stages wrote to stderr and the worker of stage 2 ended first
C2_Witness ==
    /\ Returned /\ MultiStage /\ ret.ctl = "Continue"
    /\ doneOrder = <<2, 1>>
    /\ wk[1].res.stderr # <<>> /\ wk[2].res.stderr # <<>>
    /\ Len(ioLog) = 3

\* C10: a pipeline of two or more stages with a stage named `exit` at any
\* position is rejected before anything runs: no pipe is created, no stage is
\* executed, nothing is written to stdout, the message is written to stderr,
\* the result is Continue(2), and the REPL goes on to the next line.
C10_ExitInPipelineRejected ==
    (MultiStage /\ AnyStageNamedExit) =>
        /\ pipes = <<>>
        /\ \A i \in 1..NStages : wk[i].pc = "unspawned" /\ child[i].st = "none"
        /\ StdoutLog = <<>>
        /\ Returned => (ret = Continue(2) /\ ioLog = <<ExitInPipelineEvent>>)
        /\ pcRepl # "returned"
        /\ pcRepl = "next_line" => Returned

\* `exit` as the first of two stages was rejected and the REPL went on
C10_Witness ==
    /\ MultiStage
    /\ cmds[1].kind = "exit" /\ cmds[2].kind = "builtin"
    /\ pcRepl = "next_line"
    /\ ret = Continue(2)

\* the steps of the executor and of run_repl around it, for one line
NextExec ==
    \/ RunSingleCommand
    \/ RejectExitInPipeline
    \/ CreatePipes
    \/ SpawnWorker
    \/ \E i \in 1..NStages : BuiltinRead(i)
    \/ \E i \in 1..NStages : BuiltinRun(i)
    \/ \E i \in 1..NStages : BuiltinWrite(i)
    \/ \E i \in 1..NStages : ExternalSpawn(i)
    \/ \E i \in 1..NStages : ChildRead(i)
    \/ \E i \in 1..NStages : ChildWrite(i)
    \/ \E i \in 1..NStages : ChildExit(i)
    \/ \E i \in 1..NStages : WorkerWait(i)
    \/ MainReadFinal
    \/ MainJoin
    \/ MainEmit
    \/ ReplHandle

\* the steps of a session
NextRepl ==
    \/ ReplReadLine
    \/ ReplEnd
    \/ NextExec

(***************************************************************************)
(* Claims about a session (checked under SpecRepl).                        *)
(***************************************************************************)
\* the line being run, or the last line run
CurLine == script[nRead]
\* its parse in the environment it was read in
CurParse == ParseOf(CurLine, atRead.env0)
\* the line is the single command `exit`
IsSingleExit(p) ==
    /\ p.ok
    /\ p.pipeline # None
    /\ Len(p.pipeline.commands) = 1
    /\ p.pipeline.commands[1].name = W_exit
ReplReturned == pcRepl = "returned"
ReadFailed == nRead > 0 /\ IsUnreadable(CurLine)

\* C11: run_repl returns before the end of its input, other than on a read
\* error, only when the pipeline of the line is the single stage `exit`, and it
\* returns the code of that exit; once it has returned no step of any line is
\* taken; a value Exit comes from nothing but a single stage `exit`.
C11_OnlySingleExitStopsRepl ==
    /\ (ReplReturned /\ nRead < Len(script) /\ ~ReadFailed) =>
          LET p == CurParse IN
          /\ trim(CurLine) # <<>>
          /\ IsSingleExit(p)
          /\ replRet = run_exit(p.pipeline.commands[1].args)
          /\ hist[Len(hist)] = Exit(replRet)
    /\ (ret.ctl = "Exit") => (trim(CurLine) # <<>> /\ IsSingleExit(CurParse))
    /\ \A k \in 1..Len(hist) : hist[k].ctl = "Exit" => (k = Len(hist) /\ ReplReturned)
    /\ ReplReturned => ~ENABLED NextRepl

\* the session `exit 1`, then a line that is never run
C11_Witness ==
    /\ ReplReturned
    /\ nRead = 1 /\ Len(script) = 2
    /\ script[1] = W_exit \o <<SP, "1">>
    /\ replRet = 1
    /\ hist = <<Exit(1)>>

\* the environment of the interpreter after the first k lines of the session:
\* the host environment overridden by the assignments of every line that parsed
RECURSIVE EnvAfter(_)
EnvAfter(k) ==
    IF k = 0 THEN hostEnv
    ELSE LET before == EnvAfter(k - 1)
             p == ParseOf(script[k], before)
         IN IF trim(script[k]) # <<>> /\ p.ok
            THEN Override(before, p.assignments, Len(p.assignments))
            ELSE before

\* the messages run_repl writes for a ShellError
ReplErrorMessages == {"UnclosedQuote", "EmptyPipelineSegment", "Broken pipe", "command not found"}
IsReplError(ev) == ev.to = "stderr" /\ ev.src \in ReplErrorMessages
\* what was written since the current line was read
LineLog == SubSeq(ioLog, atRead.io0 + 1, Len(ioLog))
LineHandled == nRead > 0 /\ Len(hist) = nRead
NumErr(h) == Len(SelectSeq(h, LAMBDA r : r.ctl = "Err"))

\* C12: a line that ends in a ShellError (Parse, Io or Process) makes run_repl
\* write exactly one message to the interpreter's stderr and go on to the next
\* line; lines are handled one at a time in the order of the input, a parse
\* error being that of the line at its position; when no `exit` runs and no
\* read fails, run_repl returns 0 once every line was handled.
C12_ErrorLineOneMessageAndContinue ==
    /\ Len(hist) \in {nRead, nRead - 1}
    /\ (pcRepl = "run" \/ ReadFailed) <=> (Len(hist) = nRead - 1)
    /\ (LineHandled /\ hist[nRead].ctl = "Err") =>
          /\ hist[nRead].e.kind \in {"Parse", "Io", "Process"}
          /\ SelectSeq(LineLog, LAMBDA ev : ev.to = "stderr") = <<ReplErrorEvent(hist[nRead].e)>>
          /\ pcRepl = "next_line" \/ (ReplReturned /\ nRead = Len(script))
    /\ Len(SelectSeq(ioLog, IsReplError)) = NumErr(hist)
    /\ \A k \in 1..Len(hist) :
          (hist[k].ctl = "Err" /\ hist[k].e.kind = "Parse") <=>
             (trim(script[k]) # <<>> /\ ~ParseOf(script[k], EnvAfter(k - 1)).ok)
    /\ (ReplReturned /\ ~ReadFailed /\ \A k \in 1..Len(hist) : hist[k].ctl # "Exit") =>
          (replRet = 0 /\ nRead = Len(script) /\ Len(hist) = Len(script))

\* a parse error, then a program that is not found, then the end of the input
C12_Witness ==
    /\ ReplReturned
    /\ replRet = 0
    /\ script = << <<SQ>>, W_no >>
    /\ hist = <<Err([kind |-> "Parse", msg |-> "UnclosedQuote", stage |-> 0]),
                Err(ProcessNotFound(1))>>
    /\ Len(ioLog) = 2

\* the current line was read and parsed
CurParsed == nRead > 0 /\ ~ReadFailed /\ trim(CurLine) # <<>> /\ CurParse.ok
\* the positions of the assignments to the name n
AssignedAt(assignments, n) == { k \in 1..Len(assignments) : assignments[k][1] = n }
Last(S) == CHOOSE k \in S : \A j \in S : j <= k
\* env is base with every assigned name bound to the value of its last assignment
IsOverriddenBy(env, base, assignments) ==
    /\ DOMAIN env = DOMAIN base \cup { assignments[k][1] : k \in 1..Len(assignments) }
    /\ \A n \in DOMAIN env :
          env[n] = IF AssignedAt(assignments, n) = {} THEN base[n]
                   ELSE assignments[Last(AssignedAt(assignments, n))][2]

\* C13: from the moment a line has parsed, before its pipeline takes a step and
\* until the next line is read, the environment of the interpreter is the one
\* the line was read in with every assignment of the line applied, a later
\* assignment to a name winning, whether the line has no command, its command
\* succeeds or its command fails; a line of assignments only writes nothing
\* and its value is Continue(0).
C13_AssignmentsAppliedAndKept ==
    CurParsed =>
       LET p == CurParse IN
       /\ IsOverriddenBy(shellEnv, atRead.env0, p.assignments)
       /\ (p.pipeline = None) =>
             /\ LineLog = <<>>
             /\ ret = Continue(0)
             /\ LineHandled => hist[nRead] = Continue(0)

\* `b=1 no` fails to start its command, `a=1` has no command: both are applied
C13_Witness ==
    /\ ReplReturned
    /\ script = << <<"b", "=", "1", SP>> \o W_no, <<"a", "=", "1">> >>
    /\ hist = <<Err(ProcessNotFound(1)), Continue(0)>>
    /\ NameB \in DOMAIN shellEnv /\ shellEnv[NameB] = <<"1">>
    /\ NameA \in DOMAIN shellEnv /\ shellEnv[NameA] = <<"1">>
    /\ Len(ioLog) = 1

\* C14: the environment handed to an external child, run as a single command
\* or as a stage of a pipeline, is exactly the map of the interpreter: the host
\* environment overridden in order by the assignments of every line that
\* parsed so far, the line of the child included, and nothing else.
C14_ChildEnvIsInterpreterMap ==
    \A h \in handed :
       /\ h.line \in 1..nRead
       /\ h.env = EnvAfter(h.line)

\* `a=1`, then `echo|tee` in a host environment that binds a to x: the child of
\* stage 2 is handed a bound to 1
C14_Witness ==
    /\ hostEnv = [n \in {NameA} |-> <<"x">>]
    /\ script = << <<"a", "=", "1">>, W_echo \o <<"|">> \o W_tee >>
    /\ handed = { [line |-> 2, stage |-> 2, env |-> [n \in {NameA} |-> <<"1">>]] }
    /\ ReplReturned

\* the current line was read, is not blank and does not parse
LineFailedToParse == nRead > 0 /\ ~ReadFailed /\ trim(CurLine) # <<>> /\ ~CurParse.ok

\* C37: a line that fails to parse leaves the environment of the interpreter as
\* it was when the line was read, valid assignments at its start included; no
\* command of it runs and no child is started; its value is the parse error,
\* and the one thing written for it is the message of that error.
C37_ParseErrorChangesNothing ==
    LineFailedToParse =>
       /\ shellEnv = atRead.env0
       /\ cmds = <<>> /\ pipes = <<>> /\ nSpawned = 0
       /\ \A h \in handed : h.line # nRead
       /\ ret = Err(ParseError(CurParse))
       /\ LineLog = IF LineHandled THEN <<ReplErrorEvent(ParseError(CurParse))>> ELSE <<>>
       /\ LineHandled => hist[nRead] = ret

\* `a=y |` in a host environment that binds a to x: a is still x, and the
\* message of the parse error is all that was written
C37_Witness ==
    /\ LineHandled /\ nRead = 1
    /\ script[1] = <<"a", "=", "y", SP, "|">>
    /\ hostEnv = [n \in {NameA} |-> <<"x">>]
    /\ shellEnv = hostEnv
    /\ ioLog = <<ReplErrorEvent([kind |-> "Parse", msg |-> "EmptyPipelineSegment", stage |-> 0])>>

\* the line k of the session is a pipeline of two or more stages
IsMultiStageLine(k) == Len(StagesOf(ParseOf(script[k], EnvAfter(k - 1)))) >= 2
\* the lines j and k are the same pipeline read in the same environment
SamePipeline(j, k) ==
    /\ script[j] = script[k]
    /\ EnvAfter(j - 1) = EnvAfter(k - 1)
    /\ IsMultiStageLine(j)

\* C34: a pipeline of two or more stages whose stages behave the same way has
\* the same outcome under every interleaving of its workers: run twice in one
\* session, in the same environment, it returns the same value (Ok or Err, the
\* error, the exit code) and writes the same to the interpreter's streams.
C34_OutcomeIndependentOfInterleaving ==
    /\ \A j \in 1..Len(hist) : \A k \in 1..Len(hist) :
          SamePipeline(j, k) => hist[j] = hist[k]
    /\ (Len(hist) = 2 /\ nRead = 2 /\ SamePipeline(1, 2)) =>
          SubSeq(ioLog, 1, atRead.io0) = LineLog

(***************************************************************************)
(* The words of a text, told without the tokenizer's loop (for C17).       *)
(***************************************************************************)
\* the quote mode after each character of the text t, m being the mode before
\* the character i ("n" outside quotes, "s" in single quotes, "d" in double)
RECURSIVE ModesFrom(_, _, _)
ModesFrom(t, i, m) ==
    IF i > Len(t) THEN <<>>
    ELSE LET after == CASE m = "n" -> (IF t[i] = SQ THEN "s" ELSE IF t[i] = DQ THEN "d" ELSE "n")
                        [] m = "s" -> (IF t[i] = SQ THEN "n" ELSE "s")
                        [] m = "d" -> (IF t[i] = DQ THEN "n" ELSE "d")
         IN <<after>> \o ModesFrom(t, i + 1, after)

\* in the text t whose quote modes are ms: a separator is a blank outside
\* quotes, a word is a longest run of characters without a separator and
\* without a pipe outside quotes, a quote mark is a quote character that opens
\* or closes a region
ModeBefore(ms, i) == IF i = 1 THEN "n" ELSE ms[i - 1]
IsSeparator(t, ms, i) == ModeBefore(ms, i) = "n" /\ IsBlank(t[i])
IsPipeAt(t, ms, i) == ModeBefore(ms, i) = "n" /\ t[i] = "|"
InWord(t, ms, i) == i \in 1..Len(t) /\ ~IsSeparator(t, ms, i) /\ ~IsPipeAt(t, ms, i)
IsQuoteMark(ms, i) == ModeBefore(ms, i) # ms[i]
StartsWord(t, ms, i) == InWord(t, ms, i) /\ ~InWord(t, ms, i - 1)
WordEnd(t, ms, i) ==
    CHOOSE j \in i..Len(t) : (\A k \in i..j : InWord(t, ms, k)) /\ ~InWord(t, ms, j + 1)

\* the characters i..j of t without the quote marks
RECURSIVE WithoutQuoteMarks(_, _, _, _)
WithoutQuoteMarks(t, ms, i, j) ==
    IF i > j THEN <<>>
    ELSE (IF IsQuoteMark(ms, i) THEN <<>> ELSE <<t[i]>>) \o WithoutQuoteMarks(t, ms, i + 1, j)

\* the tokens of t from the position i on: one per word, one per pipe
RECURSIVE RefTokensFrom(_, _, _)
RefTokensFrom(t, ms, i) ==
    IF i > Len(t) THEN <<>>
    ELSE (IF IsPipeAt(t, ms, i) THEN <<Pipe>>
          ELSE IF StartsWord(t, ms, i)
               THEN <<Word(WithoutQuoteMarks(t, ms, i, WordEnd(t, ms, i)))>>
               ELSE <<>>)
         \o RefTokensFrom(t, ms, i + 1)
RefTokens(t, ms) == RefTokensFrom(t, ms, 1)

\* C17: the tokens of a line are the words of its expanded text: a word made
\* of an empty quoted region alone is an empty token that keeps its position,
\* blanks outside quotes give no token however many stand together, and quoted
\* and unquoted pieces with no blank between them are one token.
C17_TokensAreWordsOfExpandedText ==
    LET ex == Expanded IN
    ex.ok =>
       LET tk == tokenize_with_pipes_and_quotes(ex.out)
           ms == ModesFrom(ex.out, 1, "n")
       IN tk.ok => tk.tokens = RefTokens(ex.out, ms)

\* the line `1 ''`: the command 1 with one argument, the empty string
C17_Witness ==
    /\ line = <<"1", SP, SQ, SQ>>
    /\ parsed # NotParsed
    /\ parsed.ok
    /\ parsed.pipeline # None
    /\ parsed.pipeline.commands[1].name = <<"1">>
    /\ parsed.pipeline.commands[1].args = << <<>> >>

(***************************************************************************)
(* Expansion of values that hold quote, blank and pipe characters          *)
(* (checked under SpecExpansion): parse_line on lines that refer to the    *)
(* variable a inside and outside quotes, a bound to any such value.        *)
(***************************************************************************)
ValueChars == {"x", SP, DQ, SQ, "|"}
Values == UNION { [1..n -> ValueChars] : n \in 0..MaxValueLen }

L_DoubleQuotedRef == <<"x", SP, DQ, "$", "a", DQ>>
L_UnquotedRef == <<"x", SP, "$", "a">>
L_SingleQuotedRef == <<"x", SP, SQ, "$", "a", SQ>>
L_SingleQuotedBetweenRefs == <<"$", "a", SQ, "x", SP, "y", SQ, "$", "a">>
L_SingleThenDoubleRef == <<SQ, "$", "a", SQ, DQ, "$", "a", DQ>>
L_LoneDollars == <<"x", SP, "$", SP, DQ, "$", DQ, SP, SQ, "$", SQ>>
L_DollarDigit == <<"x", SP, "$", "1", SP, DQ, "$", "1", DQ, SP, SQ, "$", "1", SQ>>
ExpansionLines ==
    { L_DoubleQuotedRef, L_UnquotedRef, L_SingleQuotedRef, L_SingleQuotedBetweenRefs,
      L_SingleThenDoubleRef, L_LoneDollars, L_DollarDigit }

InitExpansion ==
    /\ line \in ExpansionLines
    /\ \E v \in Values : baseEnv = [n \in {NameA} |-> v]
    /\ parsed = NotParsed

\* the pieces of a value between its blanks
RECURSIVE PiecesFrom(_, _, _)
PiecesFrom(v, i, piece) ==
    IF i > Len(v) THEN (IF piece = <<>> THEN <<>> ELSE <<piece>>)
    ELSE IF IsBlank(v[i])
         THEN (IF piece = <<>> THEN <<>> ELSE <<piece>>) \o PiecesFrom(v, i + 1, <<>>)
         ELSE PiecesFrom(v, i + 1, Append(piece, v[i]))
WhitespacePieces(v) == PiecesFrom(v, 1, <<>>)

ValueOfA == baseEnv[NameA]

\* C15: whatever the value of a, the line `x "$a"` gives the command x exactly
\* one argument, equal to the value, and the line `x $a` gives it one argument
\* per piece of the value between blanks.
C15_QuotedRefIsOneArgument ==
    /\ (parsed # NotParsed /\ line = L_DoubleQuotedRef) =>
          /\ parsed.ok
          /\ parsed.pipeline # None
          /\ Len(parsed.pipeline.commands) = 1
          /\ parsed.pipeline.commands[1].args = <<ValueOfA>>
    /\ (parsed # NotParsed /\ line = L_UnquotedRef) =>
          /\ parsed.ok
          /\ parsed.pipeline # None
          /\ Len(parsed.pipeline.commands) = 1
          /\ parsed.pipeline.commands[1].args = WhitespacePieces(ValueOfA)

\* the texts between single quotes of a raw line, read in the mode q
\* ("n" outside quotes, "s" in single quotes, "d" in double quotes)
RECURSIVE SingleQuotedTexts(_, _, _, _)
SingleQuotedTexts(ln, i, q, text) ==
    IF i > Len(ln) THEN <<>>
    ELSE CASE q = "n" ->
                SingleQuotedTexts(ln, i + 1,
                                  IF ln[i] = SQ THEN "s" ELSE IF ln[i] = DQ THEN "d" ELSE "n",
                                  <<>>)
           [] q = "s" ->
                IF ln[i] = SQ THEN <<text>> \o SingleQuotedTexts(ln, i + 1, "n", <<>>)
                ELSE SingleQuotedTexts(ln, i + 1, "s", Append(text, ln[i]))
           [] q = "d" ->
                SingleQuotedTexts(ln, i + 1, IF ln[i] = DQ THEN "n" ELSE "d", <<>>)

\* the words parse_line returned: names and arguments of the commands, values
\* of the assignments
WordsOf(p) ==
    { p.assignments[k][2] : k \in 1..Len(p.assignments) }
    \cup (IF p.pipeline = None THEN {}
          ELSE UNION { {p.pipeline.commands[i].name}
                       \cup { p.pipeline.commands[i].args[j] :
                                j \in 1..Len(p.pipeline.commands[i].args) } :
                       i \in 1..Len(p.pipeline.commands) })
\* the text r stands in the word w, character for character
HoldsText(w, r) == \E k \in 0..(Len(w) - Len(r)) : SubSeq(w, k + 1, k + Len(r)) = r

\* C16: in every environment, when a line parses, each text between single
\* quotes of the line stands unchanged inside one of the words returned (so no
\* `$a` in it was substituted), and a `$` that no name follows is a literal
\* `$` outside quotes, in double quotes and in single quotes.
C16_SingleQuotedTextVerbatim ==
    (parsed # NotParsed) =>
       /\ parsed.ok =>
             LET texts == SingleQuotedTexts(line, 1, "n", <<>>) IN
             \A k \in 1..Len(texts) : \E w \in WordsOf(parsed) : HoldsText(w, texts[k])
       /\ (line = L_LoneDollars) =>
             (parsed.ok /\ parsed.pipeline.commands[1].args = << <<"$">>, <<"$">>, <<"$">> >>)
       /\ (line = L_DollarDigit) =>
             (parsed.ok /\ parsed.pipeline.commands[1].args
                             = << <<"$", "1">>, <<"$", "1">>, <<"$", "1">> >>)

(***************************************************************************)
(* The two passes of parse_line side by side: what Pass A (expand_line)    *)
(* took for assignments and for syntax against what Pass B (the tokenizer  *)
(* and split_assignments_prefix) made of the expanded text.                *)
(***************************************************************************)
\* C35: when a line parses, the assignments Pass A committed to its working
\* environment are, in order, name and value, the assignments parse_line
\* returns.
C35_PassesAgreeOnAssignments ==
    (IsParsed /\ parsed.ok) => Expanded.committed = parsed.assignments

\* the number of `|` of the raw line ln that stand outside quotes, from i on,
\* read in the mode q ("n", "s" or "d")
RECURSIVE UnquotedPipes(_, _, _)
UnquotedPipes(ln, i, q) ==
    IF i > Len(ln) THEN 0
    ELSE CASE q = "n" ->
                (IF ln[i] = "|" THEN 1 ELSE 0)
                + UnquotedPipes(ln, i + 1,
                                IF ln[i] = SQ THEN "s" ELSE IF ln[i] = DQ THEN "d" ELSE "n")
           [] q = "s" -> UnquotedPipes(ln, i + 1, IF ln[i] = SQ THEN "n" ELSE "s")
           [] q = "d" -> UnquotedPipes(ln, i + 1, IF ln[i] = DQ THEN "n" ELSE "d")

\* C36: characters that enter through a variable's value are never syntax: in
\* every environment, when Pass A succeeds Pass B does not return
\* UnclosedQuote, and a pipeline that parses has one stage more than the raw
\* line has `|` outside quotes.
C36_ExpandedCharactersAreNotSyntax ==
    (IsParsed /\ Expanded.ok) =>
       /\ ~parsed.ok => parsed.err # "UnclosedQuote"
       /\ (parsed.ok /\ parsed.pipeline # None) =>
             Len(parsed.pipeline.commands) = 1 + UnquotedPipes(line, 1, "n")

(***************************************************************************)
(* Termination of a pipeline (checked under SpecExecFair).  The main       *)
(* thread, the worker thread of each stage and the child process of each   *)
(* external stage are scheduled by the operating system: each of them that *)
(* can take a step keeps being able to until it takes it, and takes it.    *)
(***************************************************************************)
MainStep ==
    \/ RunSingleCommand
    \/ RejectExitInPipeline
    \/ CreatePipes
    \/ SpawnWorker
    \/ MainReadFinal
    \/ MainJoin
    \/ MainEmit
    \/ ReplHandle
WorkerStep(i) ==
    /\ i <= NStages
    /\ BuiltinRead(i) \/ BuiltinRun(i) \/ BuiltinWrite(i) \/ ExternalSpawn(i) \/ WorkerWait(i)
ChildStep(i) ==
    /\ i <= NStages
    /\ ChildRead(i) \/ ChildWrite(i) \/ ChildExit(i)
ExecFairness ==
    /\ WF_vars(MainStep)
    /\ \A i \in 1..MaxStages : WF_vars(WorkerStep(i)) /\ WF_vars(ChildStep(i))

AllWorkersEnded == \A i \in 1..NStages : wk[i].pc = "done"

\* C18: with fair scheduling and pipes of PipeCap bytes, a pipeline of two or
\* more stages eventually returns and every worker it started eventually ends,
\* also when a stage writes more bytes than a pipe holds: no thread stays
\* blocked on a read or a write of a pipe.
C18_PipelineEventuallyReturns ==
    /\ (MultiStage /\ pcMain = "start") ~> Returned
    /\ (MultiStage /\ ~AnyStageNamedExit /\ pcMain = "start") ~> (Returned /\ AllWorkersEnded)

\* a pipeline has returned whose first stage wrote more than pipe 1 holds and
\* whose second stage read it all and wrote as much
C18_Witness ==
    /\ Returned
    /\ NStages = 2
    /\ cmds[1].out > PipeCap /\ cmds[2].out > PipeCap
    /\ cmds[2].kind = "builtin"
    /\ ret.ctl = "Continue"
    /\ finalStdout = cmds[2].out
    /\ AllWorkersEnded

(***************************************************************************)
(* Claims about failures inside a pipeline (checked under SpecExec).       *)
(***************************************************************************)
SomeStageFails == \E i \in 1..NStages : cmds[i].code # 0

\* C19: a stage that ends with a non-zero exit code and a message on its
\* stderr does not abort the pipeline: every stage has run to its end, the
\* message of every failing stage is in the interpreter's stderr, and the
\* pipeline returns Continue(c), c the exit code of its last stage.
C19_StageFailureDoesNotAbort ==
    (Returned /\ MultiStage /\ ~AnyStageNamedExit /\ EveryStageSpawns /\ SomeStageFails) =>
        /\ ret = Continue(cmds[NStages].code)
        /\ AllWorkersEnded
        /\ \A i \in 1..NStages :
              cmds[i].code # 0 => \E k \in 1..Len(StderrLog) : StderrLog[k] = StderrEvent(i)

SomeStageMissing == \E i \in 1..NStages : cmds[i].kind = "missing"

\* C20: a program that is not found gives the error "command not found" of
\* that program: as the value of a single command, and, whatever the order in
\* which the workers run, as the value with which a pipeline of two or more
\* stages that holds such a program returns; run_repl then goes on.
C20_MissingProgramIsTheError ==
    /\ (Returned /\ NStages = 1 /\ SomeStageMissing) => ret = Err(ProcessNotFound(1))
    /\ (Returned /\ MultiStage /\ ~AnyStageNamedExit /\ SomeStageMissing) =>
          \E i \in 1..NStages : cmds[i].kind = "missing" /\ ret = Err(ProcessNotFound(i))
    /\ (SomeStageMissing /\ pcRepl # "run") => pcRepl = "next_line"

(***************************************************************************)
(* The ends of the pipes.  Pipe i carries the stdout of stage i; pipe N is *)
(* the parent-facing pipe.                                                 *)
(***************************************************************************)
PipesCreated == MultiStage /\ pcMain \notin {"idle", "start"} /\ pipes # <<>>
ReaderOf(j) == <<"reader", j>>
WriterOf(j) == <<"writer", j>>
\* the ends the thread h holds
Owned(h) ==
    { ReaderOf(j) : j \in { k \in 1..Len(pipes) : h \in pipes[k].readers } }
        \cup { WriterOf(j) : j \in { k \in 1..Len(pipes) : h \in pipes[k].writers } }
\* the ends of stage i: the reader of pipe i - 1 (none for the first stage)
\* and the writer of pipe i
EndsOfStage(i) == (IF i = 1 THEN {} ELSE {ReaderOf(i - 1)}) \cup {WriterOf(i)}
Threads == {Main} \cup { Worker(i) : i \in 1..NStages }

\* C27: a pipeline of N stages has N - 1 inter-stage pipes and one
\* parent-facing pipe; the worker of stage i owns the reader of pipe i - 1 and
\* the writer of pipe i and no other end, no end is held by two threads, each
\* stage is run by one worker once, and with all workers spawned the main
\* thread holds the parent-facing reader only.
C27_PipeEndsHaveOneOwner ==
    PipesCreated =>
        /\ Len(pipes) = NStages
        /\ Len(wk) = NStages
        /\ \A i \in 1..NStages :
              /\ Owned(Worker(i)) \subseteq EndsOfStage(i)
              /\ wk[i].pc = "unspawned" <=> i > nSpawned
              /\ wk[i].pc = "unspawned" => Owned(Worker(i)) = {}
              /\ (wk[i].pc = FirstPc(i) /\ wk[i].pc # "run") => Owned(Worker(i)) = EndsOfStage(i)
              /\ Cardinality({ k \in 1..Len(doneOrder) : doneOrder[k] = i }) <= 1
              /\ Cardinality({ h \in handed : h.stage = i }) <= 1
        /\ \A j \in 1..Len(pipes) :
              /\ Cardinality(pipes[j].readers \cap Threads) <= 1
              /\ Cardinality(pipes[j].writers \cap Threads) <= 1
        /\ nSpawned = NStages => Owned(Main) \subseteq {ReaderOf(NStages)}
        /\ pcMain \in {"read_final", "join", "emit"} => Owned(Main) = {ReaderOf(NStages)}

\* two stages, both workers spawned and not yet run
C27_Witness ==
    /\ PipesCreated
    /\ NStages = 2
    /\ pcMain = "read_final"
    /\ cmds[1].kind = "external" /\ wk[1].pc = "spawn"
    /\ cmds[2].kind = "builtin" /\ wk[2].pc = "read"
    /\ Owned(Main) = {ReaderOf(2)}
    /\ Owned(Worker(1)) = {WriterOf(1)}
    /\ Owned(Worker(2)) = {ReaderOf(1), WriterOf(2)}

(***************************************************************************)
(* The workers at the return of a pipeline.  A stage left running when the *)
(* call returns needs three stages: the parent-facing pipe is at its end   *)
(* only when the last stage has ended, and the join loop waits for the     *)
(* first one.  LongPipelines are the pipelines of MaxStages + 1 stages     *)
(* whose commands write nothing and succeed.                               *)
(***************************************************************************)
LongStages == MaxStages + 1
LongCmds == { c \in Cmds : c.kind # "exit" /\ c.out = 0 /\ c.code = 0 }
LongPipelines == [1..LongStages -> LongCmds]

InitExecLong ==
    /\ cmds \in UNION { [1..n -> Cmds] : n \in 1..MaxStages } \cup LongPipelines
    /\ pcMain = "start"
    /\ pipes = <<>>
    /\ wk = [i \in 1..Len(cmds) |-> [pc |-> "unspawned", towrite |-> 0, res |-> NoRes, input |-> None]]
    /\ child = [i \in 1..Len(cmds) |->
                  [st |-> "none", eof |-> FALSE, towrite |-> 0, status |-> "none"]]
    /\ nSpawned = 0
    /\ results = <<>>
    /\ finalStdout = 0
    /\ ret = NoRet
    /\ ioLog = <<>>
    /\ pcRepl = "run"
    /\ doneOrder = <<>>
    /\ pipeEnv = EmptyEnv
    /\ handed = {}

\* the worker of stage i has returned and the child it waited on has exited
StageAtRest(i) == wk[i].pc = "done" /\ child[i].st # "running"

\* C25: when a worker returns a ShellError, run_pipeline_with_os_pipes returns
\* that error only after all N workers have been joined: no worker, and no
\* child a worker waits on, is still running once the call has returned.
C25_ErrorReturnsAfterAllWorkersJoined ==
    (Returned /\ MultiStage /\ ~AnyStageNamedExit /\ ret.ctl = "Err") =>
        \A i \in 1..NStages : StageAtRest(i)

\* the stages whose worker returned a ShellError
FailedStages == { i \in 1..NStages : wk[i].pc = "done" /\ wk[i].res.res = "Err" }
PipelineFailed == Returned /\ MultiStage /\ ~AnyStageNamedExit /\ ret.ctl = "Err"

C39_LowestFailingStageWins ==
    PipelineFailed =>
        /\ FailedStages # {}
        /\ LET low == CHOOSE i \in FailedStages : \A j \in FailedStages : i <= j
           IN /\ ret = Err(wk[low].res.e)
              /\ \A j \in 1..(low - 1) : wk[j].pc = "done" /\ wk[j].res.res = "Ok"

\* both workers failed, the one of stage 2 first: the error is that of stage 1
C39_Witness ==
    /\ PipelineFailed
    /\ FailedStages = {1, 2}
    /\ doneOrder = <<2, 1>>
    /\ wk[1].res = ErrRes(IoBrokenPipe)
    /\ wk[2].res = ErrRes(ProcessNotFound(2))
    /\ ret = Err(IoBrokenPipe)

(***************************************************************************)
(* The builtins cat, wc, grep and exit: run_builtin_with_input.  A path is *)
(* "f" or "g"; a file is unreadable or has a content: bytes, and for grep  *)
(* its lines, each given as whether the pattern matches it.  The stdout of *)
(* cat is a sequence of bytes; the stdout of wc and of grep and every      *)
(* stderr are sequences of lines.                                          *)
(***************************************************************************)
\* a builtin is given at most MaxArgs arguments
MaxArgs == 2
\* a file holds at most MaxFileLen bytes (for grep: lines)
MaxFileLen == 1
\* an argument of exit drawn from ExitChars has at most MaxWordLen characters
MaxWordLen == 2

Paths == {"f", "g"}
FileBytes == {"a", LF, BadByte}
SeqsUpTo(S, n) == UNION { [1..k -> S] : k \in 0..n }
Some(v) == [some |-> v]

\* std::fs::read(path): Err, or Ok(content)
Unreadable == [unreadable |-> TRUE]
FileOf(content) == [content |-> content]
ByteFiles == { FileOf(c) : c \in SeqsUpTo(FileBytes, MaxFileLen) } \cup {Unreadable}
LineFiles == { FileOf(c) : c \in SeqsUpTo(BOOLEAN, MaxFileLen) } \cup {Unreadable}

\* the value a builtin returned and what it wrote
Result(ctl, out, err) == [ctl |-> ctl, out |-> out, err |-> err]
\* `<cmd>: <path>: <reason>`, the reason being io_error_message(&e)
PathError(cmd, path) == [cmd |-> cmd, path |-> path, msg |-> "io_error_message"]
\* `<cmd>: <msg>`
UsageError(cmd, msg) == [cmd |-> cmd, path |-> None, msg |-> msg]

\* run_cat returning at the first file that cannot be read
RECURSIVE CatFrom_StopAtError(_, _, _, _)
CatFrom_StopAtError(args, fs, i, acc) ==
    IF i > Len(args) THEN acc
    ELSE LET f == fs[args[i]] IN
         IF f = Unreadable
         THEN [out |-> acc.out, err |-> Append(acc.err, PathError("cat", args[i])),
               exit_code |-> 1]
         ELSE CatFrom_StopAtError(args, fs, i + 1,
                  [out |-> acc.out \o f.content, err |-> acc.err,
                   exit_code |-> acc.exit_code])

\* `for path in args` of run_cat, from the argument i on
RECURSIVE CatFrom(_, _, _, _)
CatFrom(args, fs, i, acc) ==
    IF i > Len(args) THEN acc
    ELSE LET f == fs[args[i]] IN
         CatFrom(args, fs, i + 1,
                 IF f = Unreadable
                 THEN [out |-> acc.out, err |-> Append(acc.err, PathError("cat", args[i])),
                       exit_code |-> 1]
                 ELSE [out |-> acc.out \o f.content, err |-> acc.err,
                       exit_code |-> acc.exit_code])

run_cat(args, stdin, fs) ==
    IF args = <<>>
    THEN (IF stdin # None
          THEN Result(Continue(0), stdin.some, <<>>)
          ELSE Result(Continue(2), <<>>, <<UsageError("cat", "missing file operand")>>))
    ELSE LET r == CatFrom(args, fs, 1, [out |-> <<>>, err |-> <<>>, exit_code |-> 0])
         IN Result(Continue(r.exit_code), r.out, r.err)

\* run_wc counting the LF characters of a stdin instead of its lines
run_wc_StdinCountsNewlines(args, stdin, fs) ==
    IF args = <<>>
    THEN (IF stdin # None
          THEN Result(Continue(0), <<count_wc_CountNewlines(stdin.some)>>, <<>>)
          ELSE Result(Continue(2), <<>>, <<UsageError("wc", "missing file operand")>>))
    ELSE IF Len(args) # 1
    THEN Result(Continue(2), <<>>, <<UsageError("wc", "expected exactly one file path")>>)
    ELSE IF fs[args[1]] = Unreadable
    THEN Result(Continue(1), <<>>, <<PathError("wc", args[1])>>)
    ELSE Result(Continue(0), <<count_wc(fs[args[1]].content)>>, <<>>)

\* run_wc; the line `<lines> <words> <bytes>` is the triple of the counts
run_wc(args, stdin, fs) ==
    IF args = <<>>
    THEN (IF stdin # None
          THEN Result(Continue(0), <<count_wc(stdin.some)>>, <<>>)
          ELSE Result(Continue(2), <<>>, <<UsageError("wc", "missing file operand")>>))
    ELSE IF Len(args) # 1
    THEN Result(Continue(2), <<>>, <<UsageError("wc", "expected exactly one file path")>>)
    ELSE IF fs[args[1]] = Unreadable
    THEN Result(Continue(1), <<>>, <<PathError("wc", args[1])>>)
    ELSE Result(Continue(0), <<count_wc(fs[args[1]].content)>>, <<>>)

\* the loop of grep_bytes_into_output over the lines of one input
RECURSIVE GrepLoop(_, _, _)
GrepLoop(st, matches, after) ==
    IF st.idx = Len(matches) THEN st
    ELSE GrepLoop(grep_iteration(st, matches[st.idx + 1], after, Len(matches)), matches, after)

\* grep_bytes_into_output: `found` and the lines written, each with its prefix
grep_bytes_into_output(after, file_prefix, matches) ==
    LET st == GrepLoop(GrepInitSt, matches, after) IN
    [found |-> st.found,
     out |-> [k \in 1..Len(st.out) |-> [prefix |-> file_prefix, idx |-> st.out[k]]]]

\* `for path in &parsed.files` of run_grep, from the file i on
RECURSIVE GrepFrom(_, _, _, _, _)
GrepFrom(files, fs, after, i, acc) ==
    IF i > Len(files) THEN acc
    ELSE LET f == fs[files[i]]
             g == grep_bytes_into_output(after,
                      IF Len(files) > 1 THEN Some(files[i]) ELSE None, f.content)
         IN GrepFrom(files, fs, after, i + 1,
                IF f = Unreadable
                THEN [found_any |-> acc.found_any, had_error |-> TRUE, out |-> acc.out,
                      err |-> Append(acc.err, PathError("grep", files[i]))]
                ELSE [found_any |-> acc.found_any \/ g.found, had_error |-> acc.had_error,
                      out |-> acc.out \o g.out, err |-> acc.err])

\* the exit code of grep with a match outweighing a file that cannot be read
GrepCode_MatchFirst(had_error, found_any) ==
    IF found_any THEN 0 ELSE IF had_error THEN 2 ELSE 1
\* `let code = if had_error { 2 } else if found_any { 0 } else { 1 }`
GrepCode(had_error, found_any) == IF had_error THEN 2 ELSE IF found_any THEN 0 ELSE 1

\* run_grep; cli is what GrepCli::try_parse_from and build_regex made of the
\* arguments: an error of either, or the value of -A, and files the file operands
run_grep(cli, files, stdin, fs) ==
    IF cli.parse = "bad_args"
    THEN Result(Continue(2), <<>>, <<UsageError("grep", "clap error")>>)
    ELSE IF cli.parse = "bad_regex"
    THEN Result(Continue(2), <<>>, <<UsageError("grep", "invalid regex")>>)
    ELSE IF files = <<>>
    THEN (IF stdin = None
          THEN Result(Continue(2), <<>>, <<UsageError("grep", "missing file operand")>>)
          ELSE LET g == grep_bytes_into_output(cli.after, None, stdin.some)
               IN Result(Continue(GrepCode(FALSE, g.found)), g.out, <<>>))
    ELSE LET r == GrepFrom(files, fs, cli.after, 1,
                      [found_any |-> FALSE, had_error |-> FALSE, out |-> <<>>, err |-> <<>>])
         IN Result(Continue(GrepCode(r.had_error, r.found_any)), r.out, r.err)

\* run_builtin_with_input, for the builtins of this part
run_builtin_with_input(c) ==
    CASE c.name = "cat" -> run_cat(c.args, c.stdin, c.fs)
      [] c.name = "wc" -> run_wc(c.args, c.stdin, c.fs)
      [] c.name = "grep" -> run_grep(c.cli, c.args, c.stdin, c.fs)
      [] c.name = "exit" -> Result(Exit(run_exit(c.args)), <<>>, <<>>)

NoCall == [name |-> "none"]
NotRun == [ctl |-> NoRet]
BuiltinIdle == bCall = NoCall /\ bRes = NotRun

Call(name, args, stdin, fs, cli) ==
    [name |-> name, args |-> args, stdin |-> stdin, fs |-> fs, cli |-> cli, via |-> None]

NoFiles == [p \in Paths |-> Unreadable]
CatCalls ==
    { Call("cat", args, stdin, fs, None) :
        args \in SeqsUpTo(Paths, MaxArgs), stdin \in {None, Some(<<"a">>)},
        fs \in [Paths -> ByteFiles] }
WcCalls ==
    { Call("wc", args, stdin, fs, None) :
        args \in SeqsUpTo(Paths, MaxArgs), stdin \in {None, Some(<<"a", LF>>)},
        fs \in [Paths -> ByteFiles] }
GrepClis ==
    {[parse |-> "bad_args", after |-> 0], [parse |-> "bad_regex", after |-> 0]}
        \cup { [parse |-> "ok", after |-> n] : n \in 0..1 }
GrepCalls ==
    { Call("grep", files, stdin, fs, cli) :
        files \in SeqsUpTo(Paths, MaxArgs), stdin \in {None, Some(<<FALSE>>), Some(<<TRUE>>)},
        fs \in [Paths -> LineFiles], cli \in GrepClis }

\* the first arguments given to exit: every short text of ExitChars, and
\* numerals at and beyond both ends of the i32 range
ExitChars == {"-", "+", "0", "7", "x"}
LongWords ==
    { <<"2", "1", "4", "7", "4", "8", "3", "6", "4", "7">>,
      <<"2", "1", "4", "7", "4", "8", "3", "6", "4", "8">>,
      <<"-", "2", "1", "4", "7", "4", "8", "3", "6", "4", "8">>,
      <<"-", "2", "1", "4", "7", "4", "8", "3", "6", "4", "9">>,
      <<"+", "2", "1", "4", "7", "4", "8", "3", "6", "4", "7">>,
      <<"9", "9", "9", "9", "9", "9", "9", "9", "9", "9", "9">>,
      <<"3", "0", "0", "0", "0", "0", "0", "0", "0", "0">>,
      <<"0", "0", "0", "0", "0", "0", "0", "0", "0", "0", "4", "2">>,
      <<SP, "7">>, <<"7", SP>>, <<"1", "2", "3">>, <<"-", "1", "2", "8">>,
      <<"7", "x", "7">> }
ExitWords == SeqsUpTo(ExitChars, MaxWordLen) \cup LongWords
ExitArgs ==
    {<<>>} \cup { <<a>> : a \in ExitWords }
           \cup { <<a, b>> : a \in ExitWords, b \in {<<"7">>, <<"x">>} }
ExitCalls == { Call("exit", args, None, NoFiles, None) : args \in ExitArgs }

InitBuiltins ==
    /\ bCall \in CatCalls \cup WcCalls \cup GrepCalls \cup ExitCalls
    /\ bRes = NotRun

notBuiltins == <<pvars, gvars, wvars, xvars, svars, evars>>

\* the builtin is run: run_single_command, or the worker of a builtin stage
RunBuiltin ==
    /\ bCall # NoCall
    /\ bRes = NotRun
    /\ bRes' = run_builtin_with_input(bCall)
    /\ UNCHANGED <<bCall, notBuiltins>>

\* `cat ... | wc`: the worker of the stage `wc` reads what cat wrote to the
\* pipe up to its end and hands it to run_builtin_with_input as stdin
PipeIntoWc ==
    /\ bCall.name = "cat"
    /\ bRes # NotRun
    /\ bCall' = [name |-> "wc", args |-> <<>>, stdin |-> Some(bRes.out), fs |-> bCall.fs,
                 cli |-> None, via |-> Some(bCall.args)]
    /\ bRes' = NotRun
    /\ UNCHANGED notBuiltins

NextBuiltins == RunBuiltin \/ PipeIntoWc

(***************************************************************************)
(* grep -w: line_has_whole_word_match (checked under SpecGrepWord).  The   *)
(* pattern is a literal text, a line is a text, both over a letter and a   *)
(* hyphen; offsets count from 0 as in the source, and a match is the       *)
(* half-open range start..end.                                             *)
(***************************************************************************)
MaxPatternLen == 2
MaxLineLen == 4
GrepChars == {"a", "-"}
Patterns == SeqsUpTo(GrepChars, MaxPatternLen)
GrepLines == SeqsUpTo(GrepChars, MaxLineLen)

\* `c.is_alphanumeric() || c == '_'`
is_word_constituent(c) == c \in {"a", "_"}

\* the literal pat stands in ln at the offset s
OccursAt(pat, ln, s) ==
    /\ s + Len(pat) <= Len(ln)
    /\ SubSeq(ln, s + 1, s + Len(pat)) = pat

\* `re.find_iter(line)` from the offset pos on: the leftmost match at or after
\* pos, then the matches after its end (after an empty match, one further)
RECURSIVE find_iter(_, _, _)
find_iter(pat, ln, pos) ==
    LET starts == { s \in pos..Len(ln) : OccursAt(pat, ln, s) } IN
    IF starts = {} THEN <<>>
    ELSE LET s == CHOOSE x \in starts : \A y \in starts : x <= y IN
         <<[start |-> s, end |-> s + Len(pat)]>>
            \o find_iter(pat, ln, IF Len(pat) = 0 THEN s + 1 ELSE s + Len(pat))

\* the test of one match: not empty, and no word character on either side
IsWholeWord(ln, m) ==
    /\ m.start # m.end
    /\ (m.start = 0 \/ ~is_word_constituent(ln[m.start]))
    /\ (m.end = Len(ln) \/ ~is_word_constituent(ln[m.end + 1]))

\* line_has_whole_word_match: some match of find_iter passes the test
line_has_whole_word_match(pat, ln) ==
    LET ms == find_iter(pat, ln, 0) IN
    \E k \in 1..Len(ms) : IsWholeWord(ln, ms[k])

\* `grep -w PATTERN` on a stdin of one line
WordCalls ==
    { [name |-> "grep", args |-> <<>>, stdin |-> Some(<<ln>>), fs |-> NoFiles,
       cli |-> [parse |-> "ok", after |-> 0, word |-> TRUE, pattern |-> pat], via |-> None] :
        pat \in Patterns, ln \in GrepLines }

InitGrepWord ==
    /\ bCall \in WordCalls
    /\ bRes = NotRun

\* run_grep with -w: is_match of a line is line_has_whole_word_match
RunGrepWord ==
    /\ bCall # NoCall
    /\ bRes = NotRun
    /\ bRes' = run_grep(bCall.cli, bCall.args,
                        Some([k \in 1..Len(bCall.stdin.some) |->
                                line_has_whole_word_match(bCall.cli.pattern,
                                                          bCall.stdin.some[k])]),
                        bCall.fs)
    /\ UNCHANGED <<bCall, notBuiltins>>

\* the line holds the pattern, not empty, at an offset where no word character
\* stands before it or after it
HasStandAloneOccurrence(pat, ln) ==
    \E s \in 0..Len(ln) :
       /\ OccursAt(pat, ln, s)
       /\ IsWholeWord(ln, [start |-> s, end |-> s + Len(pat)])

\* C32: `grep -w` writes a line exactly when the line holds an occurrence of
\* the pattern that is not empty and has no word character (alphanumeric or
\* `_`) right before it or right after it; a line that holds the pattern
\* inside a longer word only is not written.
C32_WholeWordLinesAreEmitted ==
    (bRes # NotRun) =>
       \A k \in 1..Len(bCall.stdin.some) :
          (\E j \in 1..Len(bRes.out) : bRes.out[j].idx = k - 1)
             <=> HasStandAloneOccurrence(bCall.cli.pattern, bCall.stdin.some[k])

BuiltinRan(name) == bCall.name = name /\ bRes # NotRun
\* the arguments whose file can be read, and those whose file cannot, in order
ReadableArgs == SelectSeq(bCall.args, LAMBDA q : bCall.fs[q] # Unreadable)
UnreadableArgs == SelectSeq(bCall.args, LAMBDA q : bCall.fs[q] = Unreadable)

\* C21: cat with file arguments goes through every argument, also after a
\* failure: stdout is the bytes of the readable files in argument order, stderr
\* one `cat: <path>: <reason>` line per unreadable file, the exit code 1 if a
\* file was unreadable and 0 otherwise; stdin, present or not, changes nothing.
C21_CatProcessesEveryArgument ==
    (BuiltinRan("cat") /\ bCall.args # <<>>) =>
        /\ bRes.out = Flatten([k \in 1..Len(ReadableArgs) |-> bCall.fs[ReadableArgs[k]].content])
        /\ bRes.err = [k \in 1..Len(UnreadableArgs) |-> PathError("cat", UnreadableArgs[k])]
        /\ bRes.ctl = Continue(IF UnreadableArgs # <<>> THEN 1 ELSE 0)

\* an unreadable file before a readable one, with a stdin: the second file is
\* written, the stdin is not
C21_Witness ==
    /\ BuiltinRan("cat")
    /\ bCall.args = <<"f", "g">>
    /\ bCall.fs["f"] = Unreadable
    /\ bCall.fs["g"] = FileOf(<<LF>>)
    /\ bCall.stdin = Some(<<"a">>)
    /\ bRes = Result(Continue(1), <<LF>>, <<PathError("cat", "f")>>)

\* grep got as far as its inputs: the arguments and the pattern were accepted
\* and there is a file operand or a stdin
GrepSearched ==
    /\ BuiltinRan("grep")
    /\ bCall.cli.parse = "ok"
    /\ (bCall.args # <<>> \/ bCall.stdin # None)
\* some line of some input matches
SomeLineMatches ==
    IF bCall.args = <<>>
    THEN \E k \in 1..Len(bCall.stdin.some) : bCall.stdin.some[k]
    ELSE \E q \in 1..Len(ReadableArgs) :
            \E k \in 1..Len(bCall.fs[ReadableArgs[q]].content) :
                bCall.fs[ReadableArgs[q]].content[k]
\* the line idx of the file at path q stands in stdout
GrepWrote(q, idx) ==
    \E k \in 1..Len(bRes.out) :
        bRes.out[k] = [prefix |-> IF Len(bCall.args) > 1 THEN Some(q) ELSE None, idx |-> idx]

DecDigits == {"0", "1", "2", "3", "4", "5", "6", "7", "8", "9"}
HasSign(s) == s # <<>> /\ Head(s) \in {"+", "-"}
DigitsOf(s) == IF HasSign(s) THEN Tail(s) ELSE s
IsNumeral(s) == DigitsOf(s) # <<>> /\ \A k \in 1..Len(DigitsOf(s)) : DigitsOf(s)[k] \in DecDigits
RECURSIVE StripZeros(_)
StripZeros(d) == IF d # <<>> /\ Head(d) = "0" THEN StripZeros(Tail(d)) ELSE d
\* a <= b for two numerals of the same number of digits
RECURSIVE DigitsLeq(_, _)
DigitsLeq(a, b) ==
    IF a = <<>> THEN TRUE
    ELSE IF Head(a) # Head(b) THEN to_digit(Head(a)) < to_digit(Head(b))
    ELSE DigitsLeq(Tail(a), Tail(b))
\* the digits of 2^31 - 1 and of 2^31
DigitsOfI32Max == <<"2", "1", "4", "7", "4", "8", "3", "6", "4", "7">>
DigitsOf2Pow31 == <<"2", "1", "4", "7", "4", "8", "3", "6", "4", "8">>
\* the numeral denotes a number of -2^31 .. 2^31 - 1
InI32Range(s) ==
    LET d == StripZeros(DigitsOf(s))
        limit == IF s[1] = "-" THEN DigitsOf2Pow31 ELSE DigitsOfI32Max
    IN Len(d) < Len(limit) \/ (Len(d) = Len(limit) /\ DigitsLeq(d, limit))
\* the number a numeral in that range denotes: the sum of its digits' values
RECURSIVE SumOfDigits(_, _)
SumOfDigits(d, sign) ==
    IF d = <<>> THEN 0
    ELSE sign * to_digit(Head(d)) * 10 ^ (Len(d) - 1) + SumOfDigits(Tail(d), sign)
NumberOf(s) == SumOfDigits(StripZeros(DigitsOf(s)), IF s[1] = "-" THEN -1 ELSE 1)

\* C23: exit returns Exit(code), the code being its first argument read as a
\* signed 32-bit integer; with no first argument, or one that is no numeral or
\* is out of the 32-bit range, Exit(0); further arguments are ignored and
\* nothing is written.
C23_ExitCodeIsFirstArgument ==
    BuiltinRan("exit") =>
        bRes = Result(Exit(IF bCall.args # <<>> /\ IsNumeral(bCall.args[1])
                              /\ InI32Range(bCall.args[1])
                           THEN NumberOf(bCall.args[1]) ELSE 0),
                      <<>>, <<>>)

\* the least i32, followed by a second argument
C23_Witness ==
    /\ BuiltinRan("exit")
    /\ bCall.args = << <<"-">> \o DigitsOf2Pow31, <<"x">> >>
    /\ bRes.ctl = Exit(I32Min)

\* `cat FILE | wc` has run: wc was handed what `cat FILE` wrote
CatFileWcRan ==
    /\ BuiltinRan("wc")
    /\ bCall.via # None
    /\ Len(bCall.via.some) = 1
PipedFile == bCall.via.some[1]
\* the stdout of `wc FILE`
WcFileOut == run_wc(<<PipedFile>>, None, bCall.fs).out

\* C24 (for a file that can be read): `cat FILE | wc` writes the line
\* `<lines> <words> <bytes>` of the counts of FILE's bytes, the line `wc FILE`
\* writes; for a FILE that cannot be read `cat FILE | wc` writes `0 0 0` and
\* `wc FILE` writes nothing to stdout.
C24_CatWcEqualsWcOfReadableFile ==
    CatFileWcRan =>
        IF bCall.fs[PipedFile] # Unreadable
        THEN /\ bRes.out = <<count_wc(bCall.fs[PipedFile].content)>>
             /\ bRes.out = WcFileOut
        ELSE /\ bRes.out = << <<0, 0, 0>> >>
             /\ WcFileOut = <<>>

\* C24 (for every file): `cat FILE | wc` writes the same line as `wc FILE`.
C24_CatWcEqualsWcOfEveryFile ==
    CatFileWcRan => bRes.out = WcFileOut

\* a file of one unterminated line
C24_Witness ==
    /\ CatFileWcRan
    /\ bCall.fs[PipedFile] = FileOf(<<"a">>)
    /\ bRes.out = << <<1, 1, 1>> >>
    /\ WcFileOut = << <<1, 1, 1>> >>

BuiltinAfterPipe(i) == i <= NStages /\ cmds[i].kind = "builtin" /\ pipes # <<>>
\* the stdin pipe of stage i is at its end: it is empty and no writer is left
StdinAtEof(i) == pipes[i - 1].writers = {} /\ pipes[i - 1].buf = 0

\* C29: a builtin stage that is not the first writes no byte to its stdout
\* pipe, and does not end, before its stdin pipe is at end-of-file, whether or
\* not the builtin uses its stdin.
C29_BuiltinStageIsABarrier ==
    /\ [](\A i \in 2..MaxStages :
            (BuiltinAfterPipe(i) /\ wk[i].pc \in {"run", "write", "done"}) => StdinAtEof(i))
    /\ [][\A i \in 2..MaxStages :
            IF BuiltinAfterPipe(i) /\ pipes' # <<>>
            THEN pipes'[i].buf > pipes[i].buf => StdinAtEof(i)
            ELSE TRUE]_vars

\* a builtin that wrote its bytes after a program that wrote and exited
C29_Witness ==
    /\ NStages = 2
    /\ cmds[1].kind = "external" /\ cmds[1].out > 0
    /\ BuiltinAfterPipe(2) /\ cmds[2].out > 0
    /\ wk[2].pc = "done" /\ wk[2].res.res = "Ok"
    /\ finalStdout = cmds[2].out

\* C30: running a pipeline never changes the interpreter environment: no step
\* taken while a line is being run changes the map, the snapshot the workers
\* are given is the map as it was when they were spawned, every child of the
\* line is handed that map, and the map changes only when a line is read, by
\* apply_assignments on the assignments parsed from it.
C30_PipelineLeavesEnvironment ==
    /\ [][pcRepl = "run" => shellEnv' = shellEnv]_vars
    /\ [][shellEnv' # shellEnv =>
            /\ pcRepl \in {"read", "next_line"}
            /\ nRead < Len(script)
            /\ ParseOf(script[nRead + 1], shellEnv).ok
            /\ shellEnv' = apply_assignments(shellEnv,
                               ParseOf(script[nRead + 1], shellEnv).assignments)]_vars
    /\ []((pcRepl = "run" /\ PipesCreated) => pipeEnv = shellEnv)
    /\ [](\A h \in handed : h.line = nRead => h.env = CommandEnv(shellEnv))

\* an assignment line, then a two-stage pipeline with a program: the pipeline
\* returned, the map is the one the first line left
C30_Witness ==
    /\ nRead = 2
    /\ pcRepl = "next_line"
    /\ shellEnv # hostEnv
    /\ PipesCreated /\ Returned /\ ret.ctl = "Continue"
    /\ pipeEnv = shellEnv
    /\ \E h \in handed : h.line = 2 /\ h.env = CommandEnv(shellEnv)

(***************************************************************************)
(* The stdin of the stages (checked under SpecExecStdin): the pipelines of *)
(* up to MaxStages stages with at least one filter among them.             *)
(***************************************************************************)
HasFilter(cs) == \E i \in 1..Len(cs) : cs[i].kind = "filter"
FilterPipelines ==
    { cs \in UNION { [1..n -> Cmds \cup FilterCmds] : n \in 1..MaxStages } : HasFilter(cs) }

InitExecStdin ==
    /\ cmds \in FilterPipelines
    /\ pcMain = "start"
    /\ pipes = <<>>
    /\ wk = [i \in 1..Len(cmds) |->
               [pc |-> "unspawned", towrite |-> 0, res |-> NoRes, input |-> None]]
    /\ child = [i \in 1..Len(cmds) |->
                  [st |-> "none", eof |-> FALSE, towrite |-> 0, status |-> "none"]]
    /\ nSpawned = 0
    /\ results = <<>>
    /\ finalStdout = 0
    /\ ret = NoRet
    /\ ioLog = <<>>
    /\ pcRepl = "run"
    /\ doneOrder = <<>>
    /\ pipeEnv = EmptyEnv
    /\ handed = {}

\* the worker of stage i ran its builtin
BuiltinHasRun(i) == IsBuiltin(cmds[i]) /\ wk[i].pc \in {"write", "done"}
\* the result of a filter that found no stdin: `missing file operand`, code 2
MissingFileOperand(i) == OkRes(2, <<i>>)
\* the pipeline was run on pipes (two or more stages, none of them `exit`)
OnPipes == pipes # <<>>

\* C31: the first stage of a pipeline run on pipes never has a stdin: a builtin
\* first stage is run with its stdin absent, so a filter there writes nothing,
\* reports `missing file operand` and ends with code 2, while the next stage
\* still runs, on an input that is empty; the child of an external first
\* stage is at the end of its input from its start and holds no read end.
C31_FirstStageHasNoStdin ==
    OnPipes =>
       /\ wk[1].input = None
       /\ BuiltinHasRun(1) /\ cmds[1].kind = "filter" =>
             /\ wk[1].towrite = 0 /\ pipes[1].buf = 0
             /\ wk[1].pc = "done" => wk[1].res = MissingFileOperand(1)
             /\ BuiltinHasRun(2) => wk[2].input = SomeInput(0)
       /\ child[1].st # "none" =>
             /\ child[1].eof
             /\ \A j \in 1..NStages : Child(1) \notin pipes[j].readers
       /\ (pcMain = "done" /\ ret.ctl = "Continue" /\ cmds[1].kind = "filter") =>
             \E k \in 1..Len(ioLog) : ioLog[k] = StderrEvent(1)

\* `cat | wc`: cat reports the missing operand, wc counts an empty input and
\* the pipeline ends with the code of wc
C31_Witness ==
    /\ pcMain = "done"
    /\ NStages = 2
    /\ cmds[1].kind = "filter" /\ cmds[2].kind = "filter"
    /\ cmds[2].out = 1 /\ cmds[2].code = 0
    /\ wk[1].res = MissingFileOperand(1)
    /\ wk[2].input = SomeInput(0) /\ wk[2].res = OkRes(0, <<>>)
    /\ ret = Continue(0)
    /\ finalStdout = 1

\* C40: in a pipeline run on pipes every builtin stage after the first is run
\* with a stdin, possibly an empty one, in every interleaving and whatever the
\* stage before it did: a filter there never reports `missing file operand`,
\* and its code is the code of its own run, never the 2 of a missing operand.
C40_LaterStagesHaveStdin ==
    OnPipes =>
       \A i \in 2..NStages :
          /\ (wk[i].pc # "unspawned") => wk[i].input # None
          /\ BuiltinHasRun(i) =>
                /\ FilterRuns(cmds[i], wk[i].input)
                /\ wk[i].towrite <= cmds[i].out
                /\ wk[i].res.res = "Ok" =>
                      /\ wk[i].res # MissingFileOperand(i)
                      /\ wk[i].res.exit_code = cmds[i].code

\* `nosuchcmd | cat`: the first stage fails to start and cat, run on the empty
\* stdin it is left with, succeeds
C40_Witness ==
    /\ pcMain = "done"
    /\ NStages = 2
    /\ cmds[1].kind = "missing"
    /\ cmds[2].kind = "filter" /\ cmds[2].code = 0
    /\ wk[2].input = SomeInput(0)
    /\ wk[2].res = OkRes(0, <<>>)

(***************************************************************************)
(* run_external with stdin bytes (executor.rs): the call and the child it  *)
(* spawned, joined by three pipes of PipeCap bytes each.  The child writes *)
(* pre bytes to its stdout or stderr, then, when it reads, reads its stdin *)
(* to end-of-file, then writes post bytes to its stdout and exits with its *)
(* code.  The call writes `input` to the child's stdin, drops the handle   *)
(* and calls wait_with_output, which reads both outputs as they come.      *)
(***************************************************************************)
\* `input` has at most MaxInput bytes
MaxInput == 2

Streams == {"stdin", "stdout", "stderr"}
OpenPipe == [buf |-> 0, reader |-> TRUE, writer |-> TRUE]
OkRun(code, out, err) == [ctl |-> "Ok", exit_code |-> code, stdout |-> out, stderr |-> err]

NoChild == [pc |-> "none"]
ExternalIdle ==
    /\ extPc = "idle" /\ extInput = 0 /\ extPipes = <<>> /\ extChild = NoChild
    /\ extOutput = <<>> /\ extRet = NoRet

Programs ==
    { [pc |-> "pre", pre |-> a, to |-> s, reads |-> r, post |-> b, code |-> c, status |-> "none"] :
        a \in 0..MaxOut, s \in {"stdout", "stderr"}, r \in BOOLEAN, b \in 0..1, c \in 0..1 }

\* the state after `cmd.spawn()` with `cmd.stdin(Stdio::piped())`
InitExternal ==
    /\ extPc = "write"
    /\ extInput \in 0..MaxInput
    /\ extPipes = [s \in Streams |-> OpenPipe]
    /\ extChild \in Programs
    /\ extOutput = [s \in {"stdout", "stderr"} |-> 0]
    /\ extRet = NoRet

notExternal == <<pvars, gvars, wvars, xvars, svars, bvars>>

\* the process ends: every end it holds is closed
ChildEnds(ps) ==
    [ps EXCEPT !["stdin"].reader = FALSE, !["stdout"].writer = FALSE,
               !["stderr"].writer = FALSE]

\* the Child and the handles of the call are dropped
ParentEnds(ps) ==
    [ps EXCEPT !["stdin"].writer = FALSE, !["stdout"].reader = FALSE,
               !["stderr"].reader = FALSE]

\* `child_stdin.write_all(input)`, then the drop of child_stdin at the end of
\* the `if let`; a write with no reader left fails with EPIPE and the `?`
\* returns, dropping the Child
ExtWrite ==
    /\ extPc = "write"
    /\ IF extInput = 0
       THEN /\ extPipes' = [extPipes EXCEPT !["stdin"].writer = FALSE]
            /\ extPc' = "wait"
            /\ UNCHANGED <<extInput, extRet>>
       ELSE IF ~extPipes["stdin"].reader
       THEN /\ extPipes' = ParentEnds(extPipes)
            /\ extRet' = Err(IoBrokenPipe)
            /\ extPc' = "returned"
            /\ UNCHANGED extInput
       ELSE /\ extPipes["stdin"].buf < PipeCap
            /\ LET k == Min(extInput, PipeCap - extPipes["stdin"].buf) IN
               /\ extPipes' = [extPipes EXCEPT !["stdin"].buf = @ + k]
               /\ extInput' = extInput - k
            /\ UNCHANGED <<extPc, extRet>>
    /\ UNCHANGED <<extChild, extOutput, notExternal>>

\* wait_with_output: a read of what the child wrote to stdout or stderr
ExtRead(s) ==
    /\ extPc = "wait"
    /\ extPipes[s].buf > 0
    /\ extOutput' = [extOutput EXCEPT ![s] = @ + extPipes[s].buf]
    /\ extPipes' = [extPipes EXCEPT ![s].buf = 0]
    /\ UNCHANGED <<extPc, extInput, extChild, extRet, notExternal>>

\* wait_with_output: both outputs at end-of-file and the child reaped; the
\* exit code is `status.code().unwrap_or(1)`
ExtReturn ==
    /\ extPc = "wait"
    /\ \A s \in {"stdout", "stderr"} : extPipes[s].buf = 0 /\ ~extPipes[s].writer
    /\ extChild.pc = "exited"
    /\ extRet' = OkRun(IF extChild.status = "signal" THEN 1 ELSE extChild.code,
                       extOutput["stdout"], extOutput["stderr"])
    /\ extPipes' = ParentEnds(extPipes)
    /\ extPc' = "returned"
    /\ UNCHANGED <<extInput, extChild, extOutput, notExternal>>

\* the child writes: pre bytes before it reads, post bytes after; a write with
\* no reader left kills it (SIGPIPE); with nothing left to write it goes on
ExtChildWrite ==
    /\ extChild.pc \in {"pre", "post"}
    /\ LET s == IF extChild.pc = "pre" THEN extChild.to ELSE "stdout"
           n == IF extChild.pc = "pre" THEN extChild.pre ELSE extChild.post
       IN IF n = 0
          THEN IF extChild.pc = "pre"
               THEN /\ extChild' = [extChild EXCEPT !.pc = IF extChild.reads THEN "read"
                                                          ELSE "post"]
                    /\ extPipes' = extPipes
               ELSE /\ extChild' = [extChild EXCEPT !.pc = "exited", !.status = "code"]
                    /\ extPipes' = ChildEnds(extPipes)
          ELSE IF ~extPipes[s].reader
          THEN /\ extChild' = [extChild EXCEPT !.pc = "exited", !.status = "signal"]
               /\ extPipes' = ChildEnds(extPipes)
          ELSE /\ extPipes[s].buf < PipeCap
               /\ LET k == Min(n, PipeCap - extPipes[s].buf) IN
                  /\ extPipes' = [extPipes EXCEPT ![s].buf = @ + k]
                  /\ extChild' = IF extChild.pc = "pre"
                                 THEN [extChild EXCEPT !.pre = @ - k]
                                 ELSE [extChild EXCEPT !.post = @ - k]
    /\ UNCHANGED <<extPc, extInput, extOutput, extRet, notExternal>>

\* the child reads its stdin up to end-of-file
ExtChildRead ==
    /\ extChild.pc = "read"
    /\ IF extPipes["stdin"].buf > 0
       THEN /\ extPipes' = [extPipes EXCEPT !["stdin"].buf = 0]
            /\ extChild' = extChild
       ELSE /\ ~extPipes["stdin"].writer
            /\ extPipes' = extPipes
            /\ extChild' = [extChild EXCEPT !.pc = "post"]
    /\ UNCHANGED <<extPc, extInput, extOutput, extRet, notExternal>>

ExtParentStep == ExtWrite \/ (\E s \in {"stdout", "stderr"} : ExtRead(s)) \/ ExtReturn
ExtChildStep == ExtChildWrite \/ ExtChildRead
NextExternal == ExtParentStep \/ ExtChildStep

\* the thread of the call and the child process are scheduled by the operating
\* system: each one that can take a step takes it
ExternalFairness == WF_vars(ExtParentStep) /\ WF_vars(ExtChildStep)

ExtReturned == extPc = "returned"

\* C33: run_external with stdin bytes has written all of them and closed the
\* child's stdin when it starts to wait, and with fair scheduling and pipes of
\* PipeCap bytes it returns for every child that reads its whole input and
\* then ends, also when that child writes more than a pipe holds to its
\* stdout or stderr before it has read its input.
C33_RunExternalReturns ==
    /\ [](extPc = "wait" => (extInput = 0 /\ ~extPipes["stdin"].writer))
    /\ (extPc = "write" /\ extChild.reads) ~> ExtReturned

(***************************************************************************)
(* Specifications.  Each one runs one part of the program and leaves the   *)
(* state of the other parts idle.                                          *)
(***************************************************************************)
NextParser == ParseLine /\ UNCHANGED <<gvars, wvars, xvars, svars, bvars, evars>>
InitSpecParser == InitParser /\ GrepIdle /\ WcIdle /\ ExecIdle /\ ReplIdle /\ BuiltinIdle /\ ExternalIdle
SpecParser == InitSpecParser /\ [][NextParser]_vars

NextGrep == GrepStep /\ UNCHANGED <<pvars, wvars, xvars, svars, bvars, evars>>
InitSpecGrep == InitGrep /\ ParserIdle /\ WcIdle /\ ExecIdle /\ ReplIdle /\ BuiltinIdle /\ ExternalIdle
SpecGrep == InitSpecGrep /\ [][NextGrep]_vars

NextWc == CountWc /\ UNCHANGED <<pvars, gvars, xvars, svars, bvars, evars>>
InitSpecWc == InitWc /\ ParserIdle /\ GrepIdle /\ ExecIdle /\ ReplIdle /\ BuiltinIdle /\ ExternalIdle
SpecWc == InitSpecWc /\ [][NextWc]_vars

InitSpecExec == InitExec /\ ParserIdle /\ GrepIdle /\ WcIdle /\ ReplIdle /\ BuiltinIdle /\ ExternalIdle
SpecExec == InitSpecExec /\ [][NextExec]_vars

InitSpecRepl == InitRepl /\ ParserIdle /\ GrepIdle /\ WcIdle /\ BuiltinIdle /\ ExternalIdle
SpecRepl == InitSpecRepl /\ [][NextRepl]_vars

InitSpecExpansion == InitExpansion /\ GrepIdle /\ WcIdle /\ ExecIdle /\ ReplIdle /\ BuiltinIdle /\ ExternalIdle
SpecExpansion == InitSpecExpansion /\ [][NextParser]_vars

SpecExecFair == InitSpecExec /\ [][NextExec]_vars /\ ExecFairness

InitSpecExecLong ==
    InitExecLong /\ ParserIdle /\ GrepIdle /\ WcIdle /\ ReplIdle /\ BuiltinIdle /\ ExternalIdle
SpecExecLong == InitSpecExecLong /\ [][NextExec]_vars

InitSpecExecStdin ==
    InitExecStdin /\ ParserIdle /\ GrepIdle /\ WcIdle /\ ReplIdle /\ BuiltinIdle /\ ExternalIdle
SpecExecStdin == InitSpecExecStdin /\ [][NextExec]_vars

InitSpecGrepWord ==
    InitGrepWord /\ ParserIdle /\ GrepIdle /\ WcIdle /\ ExecIdle /\ ReplIdle /\ ExternalIdle
SpecGrepWord == InitSpecGrepWord /\ [][RunGrepWord]_vars

InitSpecExternal ==
    InitExternal /\ ParserIdle /\ GrepIdle /\ WcIdle /\ ExecIdle /\ ReplIdle /\ BuiltinIdle
SpecExternal == InitSpecExternal /\ [][NextExternal]_vars /\ ExternalFairness

InitSpecBuiltins ==
    InitBuiltins /\ ParserIdle /\ GrepIdle /\ WcIdle /\ ExecIdle /\ ReplIdle /\ ExternalIdle
SpecBuiltins == InitSpecBuiltins /\ [][NextBuiltins]_vars

====
